---- MODULE Spec2Model ----
(***************************************************************************)
(* Signify: the input-integrity and persistence pipeline.                  *)
(*                                                                         *)
(*   Draft Store        backend routes/posts (POST /draft, GET /draft/:id) *)
(*   Batching Buffer    hooks/useKeystrokeCapture                          *)
(*   Integrity Guard    hooks/usePastePrevention                           *)
(*   Autosave Scheduler hooks/useAutoSave                                  *)
(*                                                                         *)
(* Each component has its own specification over its own variables; the    *)
(* variables of the other components stay at their initial values.         *)
(***************************************************************************)
EXTENDS Integers, Sequences, FiniteSets, TLC

(***************************************************************************)
(* Bounds of the model.                                                    *)
(***************************************************************************)
\* number of save requests the server validates in one behaviour (server clock)
MaxClock == 2
\* number of keystroke events classified in one behaviour
MaxEvents == 3
\* number of keystroke events classified in one behaviour that draws its keys
\* from ClassifiedKeys
MaxPresses == 2
\* number of signals the guarded surface receives in one behaviour
MaxSignals == 3
\* number of save cycles the triggers of the scheduler start in one behaviour
MaxTriggers == 1
\* number of save cycles followed after a cycle that exhausted its retries
TriggersAfterExhaustion == 2

VARIABLES
    \* ---- Draft Store (PostgreSQL tables and the handlers in flight)
    drafts,                   \* table drafts: a set of rows
    draft_keystroke_events,   \* table draft_keystroke_events: rows in serial-id order
    clock,                    \* server clock read by `new Date()`
    req,                      \* the route handlers in flight, one record per slot
    \* ---- Batching Buffer (useKeystrokeCapture)
    batchRef,                 \* batchRef.current: the buffered events
    batchTimeoutRef,          \* batchTimeoutRef.current: {} (null) or the pending timer
    onBatch,                  \* whether the current render passes an onBatch callback
    eventIdCounter,           \* eventIdCounter.current
    events,                   \* React state `events`
    lastEvent,                \* React state `lastEvent`: {} (null) or {event}
    rafQueue,                 \* callbacks queued by requestAnimationFrame
    isCapturing,              \* listeners registered (effect set up, not cleaned up)
    emitted,                  \* history: the batches handed to onBatch, in order
    classified,               \* history: the events handed to addEvent, in order
    lastKey,                  \* history: the key or input signal the latest step handled, if
                              \* any, in the behaviours that observe the signals
    cleared,                  \* history: clearEvents has been called
    \* ---- Integrity Guard (usePastePrevention)
    securityEventsRef,        \* securityEventsRef.current
    lastInputTimeRef,         \* lastInputTimeRef.current
    enableLogging,            \* option enableLogging
    onSecurityEvent,          \* whether option onSecurityEvent is given
    guardNow,                 \* performance.now() of the guard: signals handled so far
    lastSignal,               \* history: the latest signal and what its handler did
    recordedSinceClear,       \* history: every event pushed since the last clear, in order
    \* ---- Autosave Scheduler (useAutoSave)
    content,                  \* prop content
    keystrokes,               \* prop keystrokes
    auth_token,               \* whether localStorage holds auth_token
    signify_draft_id,         \* localStorage item STORAGE_KEY (0: absent)
    internalDraftId,          \* React state internalDraftId (0: undefined)
    saveStatus,               \* React state saveStatus.state
    saveTimeoutRef,           \* the pending debounce timer: {} or {its saveDraft closure}
    retryCountRef,            \* retryCountRef.current
    lastSaveRef,              \* lastSaveRef.current
    isUnloadingRef,           \* isUnloadingRef.current
    mounted,                  \* the component that calls the hook is mounted
    retryTimers,              \* the pending retry timers (never canceled)
    fetches,                  \* the POST /api/posts/draft requests awaiting their response
    serverDrafts,             \* what the server stores: the n-th draft created has id n
    beacons,                  \* history: the payloads the latest step handed to sendBeacon
    triggers,                 \* history: save cycles started by a trigger
    everSaved,                \* history: some attempt has succeeded
    lastOutcome,              \* history: the attempt that ended in the latest step, if any
    lastCall,                 \* history: the saveDraft call of the latest step, if any
    lastAttempt,              \* history: the latest saveDraft call that had content to save
    rearmed                   \* history: the latest step was a render with new content or
                              \* keystrokes that cancelled a pending debounce timer and armed another

varsStore == <<drafts, draft_keystroke_events, clock, req>>
varsCapture == <<batchRef, batchTimeoutRef, onBatch, eventIdCounter, events,
                 lastEvent, rafQueue, isCapturing, emitted, classified, cleared,
                 lastKey>>
varsGuard == <<securityEventsRef, lastInputTimeRef, enableLogging, onSecurityEvent,
               guardNow, lastSignal, recordedSinceClear>>
varsSave == <<content, keystrokes, auth_token, signify_draft_id, internalDraftId,
              saveStatus, saveTimeoutRef, retryCountRef, lastSaveRef, isUnloadingRef,
              retryTimers, fetches, serverDrafts, beacons, triggers, everSaved,
              lastOutcome, lastCall, lastAttempt, rearmed, mounted>>
vars == <<varsStore, varsCapture, varsGuard, varsSave>>

\* what the steps of one component leave alone: the other components
OnlyStore == UNCHANGED <<varsCapture, varsGuard, varsSave>>
OnlyCapture == UNCHANGED <<varsStore, varsGuard, varsSave>>
OnlyGuard == UNCHANGED <<varsStore, varsCapture, varsSave>>
OnlySave == UNCHANGED <<varsStore, varsCapture, varsGuard>>

(***************************************************************************)
(* Generic helpers.                                                        *)
(***************************************************************************)
NULL == "NULL"

RECURSIVE SelectRows(_, _)
\* the rows of table t (a sequence) whose draft_id is d, in table order
SelectRows(t, d) ==
    IF t = <<>> THEN <<>>
    ELSE IF Head(t).draft_id = d THEN <<Head(t)>> \o SelectRows(Tail(t), d)
         ELSE SelectRows(Tail(t), d)

RECURSIVE DeleteRows(_, _)
\* table t without the rows whose draft_id is d
DeleteRows(t, d) ==
    IF t = <<>> THEN <<>>
    ELSE IF Head(t).draft_id = d THEN DeleteRows(Tail(t), d)
         ELSE <<Head(t)>> \o DeleteRows(Tail(t), d)

\* the API shape {timestamp, character, event_type} of a stored row
RowEvent(row) ==
    [timestamp |-> row.timestamp, character |-> row.character,
     event_type |-> row.event_type]

RowEvents(rows) == [i \in 1..Len(rows) |-> RowEvent(rows[i])]

\* the same elements with the same multiplicities
SameBag(a, b) ==
    /\ Len(a) = Len(b)
    /\ \A i \in 1..Len(a) :
          Cardinality({j \in 1..Len(a) : a[j] = a[i]}) =
          Cardinality({j \in 1..Len(b) : b[j] = a[i]})

(***************************************************************************)
(* Batching Buffer: useKeystrokeCapture.                                   *)
(***************************************************************************)
\* e.key of the key presses and releases of the input surface
RawKeys == {"a", "Backspace", "Shift"}
\* the keys handleKeyDown tells apart, and two modifiers
ClassifiedKeys == {"a", "Backspace", "Delete", "Enter", "Tab", "Shift", "Control"}
\* e.inputType and e.data of the input signals
InputTypes == {"insertText", "insertCompositionText"}
InputData == {"", "x"}

ModifierKeys == {"Control", "Alt", "Shift", "Meta"}

SpecialKeys ==
    {"Backspace", "Delete", "Enter", "Tab", "Escape", "ArrowLeft", "ArrowRight",
     "ArrowUp", "ArrowDown", "Home", "End", "PageUp", "PageDown", "Insert",
     "F1", "F2", "F3", "F4", "F5", "F6", "F7", "F8", "F9", "F10", "F11", "F12"}

\* key.startsWith('Control') || ... || key.startsWith('Meta'), on the keys above
StartsWithModifier(key) == key \in ModifierKeys \cup {"AltGraph"}

isSpecialKey(key) == key \in SpecialKeys \/ StartsWithModifier(key)

\* id and timestamp are the event's number: ids are unique and performance.now()
\* does not decrease
createKeystrokeEvent(eventType, character, n) ==
    [id |-> n, timestamp |-> n, character |-> character, eventType |-> eventType,
     cursorPosition |-> 0, isSpecialKey |-> isSpecialKey(character)]

\* the signal a listener of the input surface was called with
NoKey == [listener |-> "none", key |-> "", inputType |-> "", data |-> ""]
KeySignal(listener, key) == [NoKey EXCEPT !.listener = listener, !.key = key]
InputSignal(inputType, data) ==
    [NoKey EXCEPT !.listener = "input", !.inputType = inputType, !.data = data]
\* the value of lastKey in the behaviours that do not observe the signals
Unobserved == [NoKey EXCEPT !.listener = "unobserved"]
Observed(signal) == IF lastKey = Unobserved THEN Unobserved ELSE signal

\* every state of the hook but the history of the latest signal
varsCaptured == <<batchRef, batchTimeoutRef, onBatch, eventIdCounter, events,
                  lastEvent, rafQueue, isCapturing, emitted, classified, cleared>>

\* the timer callback's update of batchRef.current after onBatch(batch)
BatchAfterFlushKept(batch) == batch
BatchAfterFlush(batch) == <<>>

\* the callback of the batch timeout; cb is the onBatch its closure captured
BatchTimeout ==
    /\ batchTimeoutRef # {}
    /\ \E t \in batchTimeoutRef :
         IF batchRef # <<>> /\ t.onBatch
         THEN /\ emitted' = Append(emitted, batchRef)
              /\ batchRef' = BatchAfterFlush(batchRef)
         ELSE UNCHANGED <<emitted, batchRef>>
    /\ batchTimeoutRef' = {}
    /\ UNCHANGED <<onBatch, eventIdCounter, events, lastEvent, rafQueue,
                   isCapturing, classified, cleared>>
    /\ lastKey' = Observed(NoKey)
    /\ OnlyCapture

\* a timer armed at every event, replacing the pending one
ArmTimerAnew(event) == {[onBatch |-> onBatch, armedAt |-> event.id]}

\* if (batchTimeoutRef.current === null) batchTimeoutRef.current = setTimeout(...)
\* (armedAt is history: the event at whose arrival the timer was armed)
ArmTimer(event) ==
    IF batchTimeoutRef = {}
    THEN {[onBatch |-> onBatch, armedAt |-> event.id]}
    ELSE batchTimeoutRef

\* addEvent(event): queue the state update, push, arm the timer if none is set
addEvent(event) ==
    /\ rafQueue' = Append(rafQueue, event)
    /\ batchRef' = Append(batchRef, event)
    /\ classified' = Append(classified, event)
    /\ batchTimeoutRef' = ArmTimer(event)
    /\ eventIdCounter' = eventIdCounter + 1
    /\ UNCHANGED <<onBatch, events, lastEvent, isCapturing, emitted, cleared>>

\* the eventType handleKeyDown gives the press of key
KeyEventType(key) ==
    IF key = "Backspace" THEN "backspace"
    ELSE IF key = "Delete" THEN "delete" ELSE "keydown"

\* the key's own label for every key
KeyLabel(key) == key

\* the character handleKeyDown gives the press of key
KeyCharacter(key) ==
    IF key = "Enter" THEN "\n" ELSE IF key = "Tab" THEN "\t" ELSE key

\* a release classified like a press
handleKeyUpClassified(key) ==
    /\ isCapturing
    /\ lastKey' = Observed(KeySignal("keyup", key))
    /\ eventIdCounter < MaxEvents
    /\ addEvent(createKeystrokeEvent("keyup", key, eventIdCounter))
    /\ OnlyCapture

handleKeyDown(key) ==
    /\ isCapturing
    /\ lastKey' = Observed(KeySignal("keydown", key))
    /\ LET eventType == KeyEventType(key)
           character == KeyCharacter(key)
       IN  IF key \in ModifierKeys
           THEN UNCHANGED varsCaptured
           ELSE /\ eventIdCounter < MaxEvents
                /\ addEvent(createKeystrokeEvent(eventType, character, eventIdCounter))
    /\ OnlyCapture

handleKeyUp(key) ==
    /\ isCapturing
    /\ lastKey' = Observed(KeySignal("keyup", key))
    /\ UNCHANGED varsCaptured
    /\ OnlyCapture

handleInput(inputType, data) ==
    /\ isCapturing
    /\ lastKey' = Observed(InputSignal(inputType, data))
    /\ IF data # "" /\ inputType = "insertCompositionText"
       THEN /\ eventIdCounter < MaxEvents
            /\ addEvent(createKeystrokeEvent("input", data, eventIdCounter))
       ELSE UNCHANGED varsCaptured
    /\ OnlyCapture

\* a requestAnimationFrame callback: setEvents(prev => [...prev, event]),
\* setLastEvent(event)
AnimationFrame ==
    /\ rafQueue # <<>>
    /\ events' = Append(events, Head(rafQueue))
    /\ lastEvent' = {Head(rafQueue)}
    /\ rafQueue' = Tail(rafQueue)
    /\ UNCHANGED <<batchRef, batchTimeoutRef, onBatch, eventIdCounter,
                   isCapturing, emitted, classified, cleared>>
    /\ lastKey' = Observed(NoKey)
    /\ OnlyCapture

clearEvents ==
    /\ events' = <<>>
    /\ lastEvent' = {}
    /\ batchRef' = <<>>
    /\ batchTimeoutRef' = {}
    /\ cleared' = TRUE
    /\ UNCHANGED <<onBatch, eventIdCounter, rafQueue, isCapturing, emitted,
                   classified>>
    /\ lastKey' = Observed(NoKey)
    /\ OnlyCapture

\* a render with new callbacks: the listener effect's cleanup runs (it clears
\* the pending timeout) and the effect registers the new handlers
Rerender(cb) ==
    /\ isCapturing
    /\ onBatch' = cb
    /\ batchTimeoutRef' = {}
    /\ UNCHANGED <<batchRef, eventIdCounter, events, lastEvent, rafQueue,
                   isCapturing, emitted, classified, cleared>>
    /\ lastKey' = Observed(NoKey)
    /\ OnlyCapture

\* unmount: both cleanups run
Unmount ==
    /\ isCapturing
    /\ isCapturing' = FALSE
    /\ batchTimeoutRef' = {}
    /\ UNCHANGED <<batchRef, onBatch, eventIdCounter, events, lastEvent,
                   rafQueue, emitted, classified, cleared>>
    /\ lastKey' = Observed(NoKey)
    /\ OnlyCapture

InitCapture ==
    /\ batchRef = <<>>
    /\ batchTimeoutRef = {}
    /\ onBatch = TRUE
    /\ eventIdCounter = 0
    /\ events = <<>>
    /\ lastEvent = {}
    /\ rafQueue = <<>>
    /\ isCapturing = TRUE
    /\ emitted = <<>>
    /\ classified = <<>>
    /\ cleared = FALSE
    /\ lastKey = Unobserved

NextCapture ==
    \/ \E key \in RawKeys : handleKeyDown(key)
    \/ \E key \in RawKeys : handleKeyUp(key)
    \/ \E inputType \in InputTypes, data \in InputData : handleInput(inputType, data)
    \/ BatchTimeout
    \/ AnimationFrame
    \/ clearEvents
    \/ \E cb \in BOOLEAN : Rerender(cb)
    \/ Unmount

RECURSIVE Flatten(_)
Flatten(batches) ==
    IF batches = <<>> THEN <<>> ELSE Head(batches) \o Flatten(Tail(batches))

IsPrefix(a, b) == Len(a) <= Len(b) /\ SubSeq(b, 1, Len(a)) = a

\* C2: without clearEvents, the concatenation of the emitted batches is a
\* prefix of the classified events, and is all of them when the buffer is
\* empty: nothing lost, duplicated or reordered.
BatchesReproduceEvents ==
    ~cleared =>
        /\ IsPrefix(Flatten(emitted), classified)
        /\ batchRef = <<>> => Flatten(emitted) = classified

\* C2 witness: two batches emitted and a later event buffered
TwoBatchesAndBuffered ==
    /\ ~cleared
    /\ Len(emitted) = 2
    /\ batchRef # <<>>
    /\ Flatten(emitted) \o batchRef = classified

(***************************************************************************)
(* Integrity Guard: usePastePrevention.                                    *)
(***************************************************************************)
\* securityEventsRef.current.length > 100 / slice(-100)
RingCapacity == 100

\* clipboardData.getData('text').length of the paste actions
PasteLengths == {0, 5}
\* dataTransfer.items.length of the drop actions
DropItems == {1}
\* e.inputType and e.data of the beforeinput signals
BeforeInputTypes ==
    {"insertText", "insertFromPaste", "insertFromDrop", "insertReplacementText",
     "insertCompositionText"}
BeforeInputData == {"", "a", "ab"}
\* e.button of the mousedown signals
MouseButtons == {0, 1, 2}

SecurityEvent(type, details) ==
    [type |-> type, timestamp |-> guardNow, blocked |-> TRUE, details |-> details]

\* what a handler did with its signal: its kind and input, whether it called
\* event.preventDefault(), the events it handed to logSecurityEvent and to
\* onSecurityEvent, the toast it showed, the recorded events before it, and
\* whether it ended by an exception
Handled(kind, input, prevented, logged, toast) ==
    [kind |-> kind, input |-> input, defaultPrevented |-> prevented,
     logged |-> logged,
     delivered |-> IF onSecurityEvent THEN logged ELSE <<>>,
     toast |-> toast, before |-> Len(securityEventsRef), at |-> guardNow,
     raised |-> FALSE]

\* a buffer that stops recording when it is full
PushedKeepsOldest(list, event) ==
    IF Len(list) + 1 > RingCapacity THEN list ELSE Append(list, event)

\* securityEventsRef.current after push(event) and the slice to the last 100
Pushed(list, event) ==
    IF Len(list) + 1 > RingCapacity
    THEN SubSeq(Append(list, event), Len(list) + 2 - RingCapacity, Len(list) + 1)
    ELSE Append(list, event)

\* logSecurityEvent(event): the recorded events afterwards
LoggedAlways(event) == Pushed(securityEventsRef, event)
Logged(event) ==
    IF enableLogging THEN Pushed(securityEventsRef, event) ELSE securityEventsRef

\* what the caller's onSecurityEvent(event) may do: return, or throw
CallbackThrows == IF onSecurityEvent THEN BOOLEAN ELSE {FALSE}

\* a handler that cancels its signal, logs one event and shows a toast; an
\* exception of onSecurityEvent leaves logSecurityEvent and the handler
\* before the toast is shown
Block(kind, input, type, details, toast) ==
    /\ guardNow < MaxSignals
    /\ guardNow' = guardNow + 1
    /\ securityEventsRef' = Logged(SecurityEvent(type, details))
    /\ recordedSinceClear' =
          IF enableLogging
          THEN Append(recordedSinceClear, SecurityEvent(type, details))
          ELSE recordedSinceClear
    /\ \E throws \in CallbackThrows :
          lastSignal' =
             [Handled(kind, input, TRUE, <<SecurityEvent(type, details)>>,
                      IF throws THEN "" ELSE toast)
              EXCEPT !.raised = throws]
    /\ UNCHANGED <<lastInputTimeRef, enableLogging, onSecurityEvent>>
    /\ OnlyGuard

\* a handler that records nothing
Pass(kind, input, prevented) ==
    /\ guardNow < MaxSignals
    /\ guardNow' = guardNow + 1
    /\ lastSignal' = Handled(kind, input, prevented, <<>>, "")
    /\ UNCHANGED <<securityEventsRef, enableLogging, onSecurityEvent,
                   recordedSinceClear>>
    /\ OnlyGuard

handlePaste(len) ==
    /\ Block("paste", <<len>>, "paste", <<"Clipboard data length", len>>, "error")

\* the insertText test of handleBeforeInput
IsBulkInsertionAnyType(inputType, data) == data # "" /\ Len(data) > 1
IsBulkInsertion(inputType, data) ==
    inputType = "insertText" /\ data # "" /\ Len(data) > 1

\* the input-type test of handleBeforeInput
IsTaggedInsertionLong(inputType, data) ==
    /\ inputType \in {"insertFromPaste", "insertFromDrop", "insertReplacementText"}
    /\ Len(data) > 1
IsTaggedInsertion(inputType, data) ==
    inputType \in {"insertFromPaste", "insertFromDrop", "insertReplacementText"}

handleBeforeInput(inputType, data) ==
    IF IsTaggedInsertion(inputType, data)
    THEN Block("beforeinput", <<inputType, data>>, "beforeinput",
               <<"Input type", inputType>>, "error")
    ELSE IF IsBulkInsertion(inputType, data)
    THEN Block("beforeinput", <<inputType, data>>, "bulk_insertion",
               <<"Multi-character insertion blocked", Len(data)>>, "warning")
    ELSE /\ Pass("beforeinput", <<inputType, data>>, FALSE)
         /\ lastInputTimeRef' =
               IF inputType = "insertText" /\ data # ""
               THEN guardNow ELSE lastInputTimeRef

\* a dragover handler that logs like handleDrop
handleDragOverLogged ==
    /\ Block("dragover", <<>>, "drop", <<"Items dropped", 0>>, "error")

handleDragOver ==
    Pass("dragover", <<>>, TRUE) /\ UNCHANGED lastInputTimeRef

handleDragEnter ==
    Pass("dragenter", <<>>, TRUE) /\ UNCHANGED lastInputTimeRef

handleDrop(items) ==
    /\ Block("drop", <<items>>, "drop", <<"Items dropped", items>>, "error")

handleContextMenu ==
    /\ Block("contextmenu", <<>>, "context_menu",
             <<"Right-click context menu blocked">>, "warning")

handleMouseDown(button) ==
    IF button = 1
    THEN Block("mousedown", <<button>>, "middle_click",
               <<"Middle-click paste attempt">>, "error")
    ELSE Pass("mousedown", <<button>>, FALSE) /\ UNCHANGED lastInputTimeRef

clearSecurityEvents ==
    /\ securityEventsRef # <<>>
    /\ securityEventsRef' = <<>>
    /\ recordedSinceClear' = <<>>
    /\ lastSignal' = Handled("clear", <<>>, FALSE, <<>>, "")
    /\ UNCHANGED <<lastInputTimeRef, enableLogging, onSecurityEvent, guardNow>>
    /\ OnlyGuard

InitGuard ==
    /\ securityEventsRef = <<>>
    /\ lastInputTimeRef = 0
    /\ enableLogging \in BOOLEAN
    /\ onSecurityEvent \in BOOLEAN
    /\ guardNow = 0
    /\ lastSignal = [kind |-> "none", input |-> <<>>, defaultPrevented |-> FALSE,
                     logged |-> <<>>, delivered |-> <<>>, toast |-> "",
                     before |-> 0, at |-> 0, raised |-> FALSE]
    /\ recordedSinceClear = <<>>

\* the guard after RingCapacity - 1 pastes have been blocked and recorded
\* (timestamps count back from the signal handled next)
InitGuardNearFull ==
    /\ securityEventsRef =
          [i \in 1..(RingCapacity - 1) |->
              [type |-> "paste", timestamp |-> i - RingCapacity, blocked |-> TRUE,
               details |-> <<"Clipboard data length", 0>>]]
    /\ recordedSinceClear = securityEventsRef
    /\ lastInputTimeRef = 0
    /\ enableLogging = TRUE
    /\ onSecurityEvent \in BOOLEAN
    /\ guardNow = 0
    /\ lastSignal = [kind |-> "none", input |-> <<>>, defaultPrevented |-> FALSE,
                     logged |-> <<>>, delivered |-> <<>>, toast |-> "",
                     before |-> 0, at |-> 0, raised |-> FALSE]

\* the guard of the other components' specifications: default options
GuardAtRest == InitGuard /\ enableLogging /\ ~onSecurityEvent

NextGuard ==
    \/ \E len \in PasteLengths : handlePaste(len)
    \/ \E inputType \in BeforeInputTypes, data \in BeforeInputData :
          handleBeforeInput(inputType, data)
    \/ handleDragOver
    \/ handleDragEnter
    \/ \E items \in DropItems : handleDrop(items)
    \/ handleContextMenu
    \/ \E button \in MouseButtons : handleMouseDown(button)
    \/ clearSecurityEvents

(***************************************************************************)
(* Integrity Guard: properties.                                            *)
(***************************************************************************)
\* the recorded events created by the signal handled at time t
RecordedAt(t) ==
    {i \in 1..Len(securityEventsRef) : securityEventsRef[i].timestamp = t}

\* the latest signal added exactly one event of the given type, blocked, at
\* the end of the recorded events
RecordedOne(type) ==
    /\ Cardinality(RecordedAt(lastSignal.at)) = 1
    /\ Len(securityEventsRef) =
          IF lastSignal.before + 1 > RingCapacity THEN RingCapacity
          ELSE lastSignal.before + 1
    /\ securityEventsRef[Len(securityEventsRef)].timestamp = lastSignal.at
    /\ securityEventsRef[Len(securityEventsRef)].type = type
    /\ securityEventsRef[Len(securityEventsRef)].blocked

\* the latest signal left the recorded events as they were
RecordedNone ==
    /\ RecordedAt(lastSignal.at) = {}
    /\ Len(securityEventsRef) = lastSignal.before

\* the latest signal is a paste, drop, context-menu or middle-button action
IsBlockedAction ==
    \/ lastSignal.kind \in {"paste", "drop", "contextmenu"}
    \/ lastSignal.kind = "mousedown" /\ lastSignal.input = <<1>>

BlockedActionType ==
    IF lastSignal.kind = "paste" THEN "paste"
    ELSE IF lastSignal.kind = "drop" THEN "drop"
    ELSE IF lastSignal.kind = "contextmenu" THEN "context_menu"
    ELSE "middle_click"

\* C3 as stated: every paste, drop, context-menu and middle-button action is
\* canceled and adds exactly one blocked SecurityEvent of the matching type to
\* the recorded events, in every configuration of the guard.
BlockedActionAlwaysRecorded ==
    IsBlockedAction =>
        /\ lastSignal.defaultPrevented
        /\ RecordedOne(BlockedActionType)

\* C3 amended: every such action is canceled and creates one blocked
\* SecurityEvent of the matching type; it is added to the recorded events
\* when enableLogging is true, and with enableLogging false nothing is
\* recorded (the event only reaches onSecurityEvent, when given).
BlockedActionRecordedWhenLogging ==
    IsBlockedAction =>
        /\ lastSignal.defaultPrevented
        /\ Len(lastSignal.logged) = 1
        /\ lastSignal.logged[1].type = BlockedActionType
        /\ lastSignal.logged[1].blocked
        /\ lastSignal.delivered = IF onSecurityEvent THEN lastSignal.logged ELSE <<>>
        /\ IF enableLogging THEN RecordedOne(BlockedActionType) ELSE RecordedNone

\* C3 witness: a middle-button press recorded after an earlier blocked action
MiddleClickRecorded ==
    /\ lastSignal.kind = "mousedown" /\ lastSignal.input = <<1>>
    /\ enableLogging
    /\ Len(securityEventsRef) >= 2
    /\ securityEventsRef[Len(securityEventsRef)].type = "middle_click"

DragSignalsRecorded ==
    lastSignal.kind \in {"dragenter", "dragover"}
        => /\ lastSignal.defaultPrevented
           /\ Len(lastSignal.logged) = 1
           /\ lastSignal.logged[1].blocked

\* C26 amended: dragenter and dragover are canceled and create no
\* SecurityEvent and no toast; a drop is canceled and creates exactly one
\* blocked SecurityEvent of type drop, recorded when logging is on.
DragCanceledDropRecorded ==
    /\ lastSignal.kind \in {"dragenter", "dragover"}
          => /\ lastSignal.defaultPrevented
             /\ lastSignal.logged = <<>>
             /\ lastSignal.delivered = <<>>
             /\ lastSignal.toast = ""
             /\ RecordedNone
    /\ lastSignal.kind = "drop"
          => /\ lastSignal.defaultPrevented
             /\ Len(lastSignal.logged) = 1
             /\ lastSignal.logged[1].type = "drop"
             /\ lastSignal.logged[1].blocked
             /\ enableLogging => RecordedOne("drop")

\* C26 witness: a dragover after a recorded drop is canceled and leaves the
\* recorded events as they were
DragOverAfterDrop ==
    /\ lastSignal.kind = "dragover"
    /\ lastSignal.defaultPrevented
    /\ enableLogging
    /\ Len(securityEventsRef) = 1
    /\ securityEventsRef[1].type = "drop"
    /\ RecordedNone

\* C27: the recorded events are at most RingCapacity, and they are the most
\* recent min(n, RingCapacity) of the n events pushed since the last clear,
\* in the order they were pushed.
RingHoldsLatest ==
    LET n == Len(recordedSinceClear)
        kept == IF n < RingCapacity THEN n ELSE RingCapacity
    IN  /\ Len(securityEventsRef) <= RingCapacity
        /\ Len(securityEventsRef) = kept
        /\ securityEventsRef = SubSeq(recordedSinceClear, n - kept + 1, n)

\* C27 witness: two events more than the capacity have been pushed, and the
\* two oldest are gone
TwoOldestEvicted ==
    /\ Len(recordedSinceClear) = RingCapacity + 2
    /\ Len(securityEventsRef) = RingCapacity
    /\ securityEventsRef[1] = recordedSinceClear[3]
    /\ securityEventsRef[RingCapacity].timestamp = lastSignal.at

\* C28: no handler of the guard ends by an exception, and a signal for which
\* a SecurityEvent was created is canceled and the event is recorded (when
\* logging is on), whatever the callback and the notification do.
GuardHandlersNeverRaise ==
    /\ ~lastSignal.raised
    /\ lastSignal.logged # <<>>
          => /\ lastSignal.defaultPrevented
             /\ enableLogging => RecordedOne(lastSignal.logged[1].type)

(***************************************************************************)
(* Autosave Scheduler: data.                                               *)
(***************************************************************************)
MAX_RETRIES == 5
BASE_RETRY_DELAY == 1000

\* prop enabled, at its default
enabled == TRUE

\* the texts the editor holds, as sequences of characters
EditorTexts == {<<>>, <<"a">>, <<"b", " ">>}

\* the events the capture hook hands to the editor during the session; prop
\* keystrokes is a prefix of them
SessionKeys == <<[timestamp |-> 1, character |-> "a", eventType |-> "keydown"]>>

\* draft ids as the server issues them; 0 stands for undefined
NoDraftId == 0

\* the characters String.prototype.trim strips and /\s/ matches
IsSpace(ch) == ch \in {" ", "\t", "\n"}

RECURSIVE TrimStart(_)
TrimStart(s) == IF s # <<>> /\ IsSpace(Head(s)) THEN TrimStart(Tail(s)) ELSE s

RECURSIVE TrimEnd(_)
TrimEnd(s) ==
    IF s # <<>> /\ IsSpace(s[Len(s)]) THEN TrimEnd(SubSeq(s, 1, Len(s) - 1)) ELSE s

\* String.prototype.trim
Trim(s) == TrimEnd(TrimStart(s))

transformKeystrokesForAPI(evs) ==
    [i \in 1..Len(evs) |-> [timestamp |-> evs[i].timestamp,
                            character |-> evs[i].character,
                            event_type |-> evs[i].eventType]]

\* what the saveDraft callback of the current render closes over
\* (externalDraftId is not given: draftId is internalDraftId)
Closure == [content |-> content, keystrokes |-> keystrokes, draftId |-> internalDraftId]

\* the request body saveDraft builds from what it closes over
Payload(cl) ==
    [content |-> Trim(cl.content),
     keystrokes |-> transformKeystrokesForAPI(cl.keystrokes),
     draftId |-> cl.draftId]

\* history carried by a save cycle: its trigger, the number of the attempt,
\* the requests it has sent, the retry delays it has waited, and whether the
\* attempt sends what the current render holds
NewCycle ==
    [cycle |-> triggers + 1, attempt |-> 1, requests |-> 0, delays |-> <<>>,
     current |-> TRUE]

\* history of a saveDraft call: the trimmed content it closes over, the
\* last saved content it finds, whether it sends a request, the call with
\* content to save that came before it, the draftId it closes over and the
\* internalDraftId of the current render
NoAttempt == [content |-> <<>>, sent |-> FALSE]

NoCall ==
    [content |-> <<>>, saved |-> <<>>, sent |-> FALSE, prev |-> NoAttempt,
     draftId |-> 0, adopted |-> 0, by |-> "none"]

NoSaveCall ==
    /\ lastCall' = NoCall
    /\ rearmed' = FALSE
    /\ beacons' = <<>>
    /\ UNCHANGED lastAttempt

\* history of a render with new content or keystrokes
Rearms ==
    /\ lastCall' = NoCall
    /\ rearmed' = (saveTimeoutRef # {} /\ saveTimeoutRef' # {})
    /\ beacons' = <<>>
    /\ UNCHANGED lastAttempt

NoOutcome == [h |-> [cycle |-> 0, attempt |-> 0, requests |-> 0, delays |-> <<>>,
                     current |-> TRUE],
              ok |-> FALSE]

(***************************************************************************)
(* Autosave Scheduler: saveDraft.                                          *)
(***************************************************************************)
\* the retry test as a run of MAX_RETRIES + 1 retries would make it
CanRetryOnceMore(n) == n <= MAX_RETRIES

CanRetry(n) == n < MAX_RETRIES

\* a backoff that grows by BASE_RETRY_DELAY per retry
RetryDelayLinear(n) == BASE_RETRY_DELAY * (n + 1)

RetryDelay(n) == BASE_RETRY_DELAY * 2^n

\* the early returns of a saveDraft that also skips content already in flight
ReturnsWhileInFlight(cl) ==
    \/ ~enabled
    \/ isUnloadingRef
    \/ Trim(cl.content) = <<>>
    \/ Trim(cl.content) = lastSaveRef
    \/ \E f \in fetches : f.payload.content = Trim(cl.content)

\* the early returns of a saveDraft that does not test isUnloadingRef
ReturnsIgnoringUnload(cl) ==
    \/ ~enabled
    \/ Trim(cl.content) = <<>>
    \/ Trim(cl.content) = lastSaveRef

\* the early returns of saveDraft
Returns(cl) ==
    \/ ~enabled
    \/ isUnloadingRef
    \/ Trim(cl.content) = <<>>
    \/ Trim(cl.content) = lastSaveRef

\* a retry scheduled without counting it
RetryCountedNot(n) == n

\* retryCountRef.current++
RetryCounted(n) == n + 1

\* a React state setter: the state after it, which is the old state once
\* the component is unmounted
setState(old, new) == IF mounted THEN new ELSE old

\* the catch block: Error, and a retry of the same callback while the counter
\* allows; timers are the retry timers pending when it runs
Catch(cl, h, timers) ==
    /\ saveStatus' = setState(saveStatus, "error")
    /\ lastOutcome' = [h |-> h, ok |-> FALSE]
    /\ IF CanRetry(retryCountRef)
       THEN /\ retryCountRef' = RetryCounted(retryCountRef)
            /\ retryTimers' = timers \cup
                 {[cl |-> cl, delay |-> RetryDelay(retryCountRef),
                   h |-> [h EXCEPT !.attempt = @ + 1,
                                   !.delays = Append(@, RetryDelay(retryCountRef))]]}
       ELSE /\ retryCountRef' = retryCountRef
            /\ retryTimers' = timers

\* history: what the call of the callback that closes over cl does
Called(cl, by) ==
    LET sent == ~Returns(cl) /\ auth_token IN
    /\ lastCall' = [content |-> Trim(cl.content), saved |-> lastSaveRef,
                    sent |-> sent, prev |-> lastAttempt,
                    draftId |-> cl.draftId, adopted |-> internalDraftId,
                    by |-> by]
    /\ lastAttempt' = IF Trim(cl.content) = <<>> THEN lastAttempt
                      ELSE [content |-> Trim(cl.content), sent |-> sent]
    /\ rearmed' = FALSE
    /\ beacons' = <<>>

\* one call of the saveDraft callback that closes over cl, up to its first
\* await: it returns early, fails for want of a token, or sends its request
saveDraft(cl, h, timers, by) ==
    /\ Called(cl, by)
    /\ IF Returns(cl)
       THEN /\ retryTimers' = timers
            /\ lastOutcome' = NoOutcome
            /\ UNCHANGED <<saveStatus, retryCountRef, fetches>>
       ELSE IF ~auth_token
       THEN /\ Catch(cl, h, timers)
            /\ UNCHANGED fetches
       ELSE /\ saveStatus' = setState(saveStatus, "saving")
            /\ fetches' = fetches \cup
                 {[cl |-> cl, payload |-> Payload(cl),
                   h |-> [h EXCEPT !.requests = @ + 1]]}
            /\ retryTimers' = timers
            /\ lastOutcome' = NoOutcome
            /\ UNCHANGED retryCountRef

\* a content effect that leaves a pending timer alone
ContentEffectKeepsTimer(cl, saved) ==
    IF saveTimeoutRef # {} THEN saveTimeoutRef
    ELSE IF enabled /\ Trim(cl.content) # <<>> /\ Trim(cl.content) # saved
    THEN {cl}
    ELSE {}

\* the content effect after a render that changed content or the callback:
\* the cleanup cancels the pending debounce timer, the effect arms a new one
\* for the callback cl when the trimmed content differs from saved
ContentEffect(cl, saved) ==
    IF enabled /\ Trim(cl.content) # <<>> /\ Trim(cl.content) # saved
    THEN {cl}
    ELSE {}

(***************************************************************************)
(* Autosave Scheduler: renders, triggers, timers and responses.            *)
(***************************************************************************)
\* the parent renders the hook with another content
ContentChange(text) ==
    /\ mounted /\ UNCHANGED mounted
    /\ text # content
    /\ content' = text
    /\ saveTimeoutRef' = ContentEffect([Closure EXCEPT !.content = text], lastSaveRef)
    /\ lastOutcome' = NoOutcome
    /\ Rearms
    /\ UNCHANGED <<keystrokes, auth_token, signify_draft_id, internalDraftId,
                   saveStatus, retryCountRef, lastSaveRef, isUnloadingRef,
                   retryTimers, fetches, serverDrafts, triggers, everSaved>>
    /\ OnlySave

\* the parent renders the hook with a longer keystrokes array
KeystrokesChange ==
    /\ mounted /\ UNCHANGED mounted
    /\ Len(keystrokes) < Len(SessionKeys)
    /\ keystrokes' = Append(keystrokes, SessionKeys[Len(keystrokes) + 1])
    /\ saveTimeoutRef' =
         ContentEffect([Closure EXCEPT !.keystrokes = keystrokes'], lastSaveRef)
    /\ lastOutcome' = NoOutcome
    /\ Rearms
    /\ UNCHANGED <<content, auth_token, signify_draft_id, internalDraftId,
                   saveStatus, retryCountRef, lastSaveRef, isUnloadingRef,
                   retryTimers, fetches, serverDrafts, triggers, everSaved>>
    /\ OnlySave

\* login stores auth_token, logout removes it
SetAuthToken(present) ==
    /\ UNCHANGED mounted
    /\ auth_token # present
    /\ auth_token' = present
    /\ lastOutcome' = NoOutcome
    /\ NoSaveCall
    /\ UNCHANGED <<content, keystrokes, signify_draft_id, internalDraftId,
                   saveStatus, saveTimeoutRef, retryCountRef, lastSaveRef,
                   isUnloadingRef, retryTimers, fetches, serverDrafts,
                   triggers, everSaved>>
    /\ OnlySave

\* what a trigger leaves alone
TriggerFrame ==
    /\ UNCHANGED <<content, keystrokes, auth_token, signify_draft_id,
                   internalDraftId, lastSaveRef, isUnloadingRef, serverDrafts,
                   everSaved>>
    /\ OnlySave

\* the debounce timer fires and calls the callback it was armed with
DebounceFire ==
    /\ mounted /\ UNCHANGED mounted
    /\ \E cl \in saveTimeoutRef :
          /\ Returns(cl) \/ triggers < MaxTriggers
          /\ saveDraft(cl, NewCycle, retryTimers, "debounce")
          /\ triggers' = IF Returns(cl) THEN triggers ELSE triggers + 1
    /\ saveTimeoutRef' = {}
    /\ TriggerFrame

\* a visibilitychange handler that leaves the save to the debounce timer
handleVisibilityChangeDebounced ==
    /\ mounted /\ UNCHANGED mounted
    /\ enabled
    /\ Trim(content) # <<>>
    /\ Trim(content) # lastSaveRef
    /\ saveTimeoutRef' = {Closure}
    /\ lastCall' = [NoCall EXCEPT !.content = Trim(content), !.by = "visibility"]
    /\ rearmed' = FALSE
    /\ beacons' = <<>>
    /\ lastOutcome' = NoOutcome
    /\ UNCHANGED <<saveStatus, retryCountRef, fetches, retryTimers, triggers,
                   lastAttempt>>
    /\ TriggerFrame

\* visibilitychange with the tab hidden
handleVisibilityChange ==
    /\ mounted /\ UNCHANGED mounted
    /\ Returns(Closure) \/ triggers < MaxTriggers
    /\ enabled
    /\ Trim(content) # <<>>
    /\ Trim(content) # lastSaveRef
    /\ saveDraft(Closure, NewCycle, retryTimers, "visibility")
    /\ triggers' = IF Returns(Closure) THEN triggers ELSE triggers + 1
    /\ UNCHANGED saveTimeoutRef
    /\ TriggerFrame

\* the caller of the hook calls the saveDraft it was returned
ManualSave ==
    /\ mounted /\ UNCHANGED mounted
    /\ Returns(Closure) \/ triggers < MaxTriggers
    /\ saveDraft(Closure, NewCycle, retryTimers, "manual")
    /\ triggers' = IF Returns(Closure) THEN triggers ELSE triggers + 1
    /\ UNCHANGED saveTimeoutRef
    /\ TriggerFrame

\* a retry timer fires: it calls the callback that scheduled it
RetryFire ==
    /\ UNCHANGED mounted
    /\ \E t \in retryTimers :
          IF enabled /\ ~isUnloadingRef
          THEN saveDraft(t.cl,
                         [t.h EXCEPT !.current = (Payload(t.cl) = Payload(Closure))],
                         retryTimers \ {t}, "retry")
          ELSE /\ retryTimers' = retryTimers \ {t}
               /\ lastOutcome' = NoOutcome
               /\ NoSaveCall
               /\ UNCHANGED <<saveStatus, retryCountRef, fetches>>
    /\ UNCHANGED <<saveTimeoutRef, triggers>>
    /\ TriggerFrame

\* POST /draft as this client sees it: a body without draftId creates the
\* next draft, a body with one rewrites that draft
ServerSave(body) ==
    LET row == [content |-> body.content, keystrokes |-> body.keystrokes]
    IN  IF body.draftId = NoDraftId
        THEN Append(serverDrafts, row)
        ELSE [serverDrafts EXCEPT ![body.draftId] = row]

SavedDraftId(body) ==
    IF body.draftId = NoDraftId THEN Len(serverDrafts) + 1 ELSE body.draftId

\* a request is answered 200: the rest of the try block, then the render
\* that follows setInternalDraftId
ResponseOk ==
    /\ UNCHANGED mounted
    /\ \E f \in fetches :
          LET adopted == IF f.cl.draftId = NoDraftId
                         THEN SavedDraftId(f.payload)
                         ELSE internalDraftId
          IN  /\ serverDrafts' = ServerSave(f.payload)
              /\ internalDraftId' = setState(internalDraftId, adopted)
              /\ signify_draft_id' = IF f.cl.draftId = NoDraftId
                                     THEN SavedDraftId(f.payload)
                                     ELSE signify_draft_id
              /\ saveStatus' = setState(saveStatus, "saved")
              /\ lastSaveRef' = f.payload.content
              /\ retryCountRef' = 0
              /\ saveTimeoutRef' =
                   IF mounted /\ adopted # internalDraftId
                   THEN ContentEffect([Closure EXCEPT !.draftId = adopted],
                                      f.payload.content)
                   ELSE saveTimeoutRef
              /\ fetches' = fetches \ {f}
              /\ lastOutcome' = [h |-> f.h, ok |-> TRUE]
    /\ everSaved' = TRUE
    /\ NoSaveCall
    /\ UNCHANGED <<content, keystrokes, auth_token, isUnloadingRef, retryTimers,
                   triggers>>
    /\ OnlySave

\* a request fails in transit or is answered with an error status, the
\* server having stored nothing
ResponseError ==
    /\ UNCHANGED mounted
    /\ \E f \in fetches :
          /\ Catch(f.cl, f.h, retryTimers)
          /\ fetches' = fetches \ {f}
    /\ NoSaveCall
    /\ UNCHANGED <<content, keystrokes, auth_token, signify_draft_id,
                   internalDraftId, saveTimeoutRef, lastSaveRef, isUnloadingRef,
                   serverDrafts, triggers, everSaved>>
    /\ OnlySave

clearDraft ==
    /\ mounted /\ UNCHANGED mounted
    /\ signify_draft_id' = IF internalDraftId # NoDraftId THEN NoDraftId
                           ELSE signify_draft_id
    /\ internalDraftId' = NoDraftId
    /\ saveStatus' = "idle"
    /\ lastSaveRef' = <<>>
    /\ saveTimeoutRef' =
         IF internalDraftId # NoDraftId
         THEN ContentEffect([Closure EXCEPT !.draftId = NoDraftId], <<>>)
         ELSE saveTimeoutRef
    /\ lastOutcome' = NoOutcome
    /\ NoSaveCall
    /\ UNCHANGED <<content, keystrokes, auth_token, retryCountRef, isUnloadingRef,
                   retryTimers, fetches, serverDrafts, triggers, everSaved>>
    /\ OnlySave

\* the component unmounts: the cleanups of the content effect and of the
\* unmount effect clear the debounce timer, the listeners are removed
UnmountSave ==
    /\ mounted
    /\ mounted' = FALSE
    /\ saveTimeoutRef' = {}
    /\ lastOutcome' = NoOutcome
    /\ NoSaveCall
    /\ UNCHANGED <<content, keystrokes, auth_token, signify_draft_id,
                   internalDraftId, saveStatus, retryCountRef, lastSaveRef,
                   isUnloadingRef, retryTimers, fetches, serverDrafts,
                   triggers, everSaved>>
    /\ OnlySave

\* a handler that also hands the payload over when no token is stored
sendBeaconAlways(payload) == <<payload, payload>>

\* if (token) navigator.sendBeacon('/api/posts/draft', blob)
sendBeacon(payload) == IF auth_token THEN <<payload>> ELSE <<>>

\* beforeunload with unsaved content (the user may stay on the page, and the
\* event may come again)
handleBeforeUnload ==
    /\ mounted /\ UNCHANGED mounted
    /\ enabled
    /\ Trim(content) # <<>>
    /\ Trim(content) # lastSaveRef
    /\ isUnloadingRef' = TRUE
    /\ beacons' = sendBeacon(Payload(Closure))
    /\ lastOutcome' = NoOutcome
    /\ lastCall' = NoCall
    /\ rearmed' = FALSE
    /\ UNCHANGED lastAttempt
    /\ UNCHANGED <<content, keystrokes, auth_token, signify_draft_id,
                   internalDraftId, saveStatus, saveTimeoutRef, retryCountRef,
                   lastSaveRef, retryTimers, fetches, serverDrafts, triggers,
                   everSaved>>
    /\ OnlySave

InitSave ==
    /\ content = <<>>
    /\ keystrokes = <<>>
    /\ auth_token = TRUE
    /\ signify_draft_id = NoDraftId
    /\ internalDraftId = NoDraftId
    /\ saveStatus = "idle"
    /\ saveTimeoutRef = {}
    /\ retryCountRef = 0
    /\ lastSaveRef = <<>>
    /\ isUnloadingRef = FALSE
    /\ mounted = TRUE
    /\ retryTimers = {}
    /\ fetches = {}
    /\ serverDrafts = <<>>
    /\ beacons = <<>>
    /\ triggers = 0
    /\ everSaved = FALSE
    /\ lastOutcome = NoOutcome
    /\ lastCall = NoCall
    /\ lastAttempt = NoAttempt
    /\ rearmed = FALSE

\* the scheduler when the first save of content "a", started by the debounce
\* timer, is awaiting its response (a state of SpecSave; its cycle is cycle 0
\* and triggers counts the cycles started after it)
InitSaveInFlight ==
    /\ content = <<"a">>
    /\ keystrokes = <<>>
    /\ auth_token = TRUE
    /\ signify_draft_id = NoDraftId
    /\ internalDraftId = NoDraftId
    /\ saveStatus = "saving"
    /\ saveTimeoutRef = {}
    /\ retryCountRef = 0
    /\ lastSaveRef = <<>>
    /\ isUnloadingRef = FALSE
    /\ mounted = TRUE
    /\ retryTimers = {}
    /\ fetches = {[cl |-> [content |-> <<"a">>, keystrokes |-> <<>>,
                            draftId |-> NoDraftId],
                    payload |-> [content |-> <<"a">>, keystrokes |-> <<>>,
                                 draftId |-> NoDraftId],
                    h |-> [cycle |-> 0, attempt |-> 1, requests |-> 1,
                           delays |-> <<>>, current |-> TRUE]]}
    /\ serverDrafts = <<>>
    /\ beacons = <<>>
    /\ triggers = 0
    /\ everSaved = FALSE
    /\ lastOutcome = NoOutcome
    /\ lastCall = NoCall
    /\ lastAttempt = [content |-> <<"a">>, sent |-> TRUE]
    /\ rearmed = FALSE

\* the scheduler when the first request of the last save cycle that is
\* followed, started by the debounce timer with content "a", is awaiting its
\* response (a state of SpecSave)
InitSaveLastCycle ==
    /\ content = <<"a">>
    /\ keystrokes = <<>>
    /\ auth_token = TRUE
    /\ signify_draft_id = NoDraftId
    /\ internalDraftId = NoDraftId
    /\ saveStatus = "saving"
    /\ saveTimeoutRef = {}
    /\ retryCountRef = 0
    /\ lastSaveRef = <<>>
    /\ isUnloadingRef = FALSE
    /\ mounted = TRUE
    /\ retryTimers = {}
    /\ fetches = {[cl |-> [content |-> <<"a">>, keystrokes |-> <<>>,
                            draftId |-> NoDraftId],
                    payload |-> [content |-> <<"a">>, keystrokes |-> <<>>,
                                 draftId |-> NoDraftId],
                    h |-> [cycle |-> MaxTriggers, attempt |-> 1, requests |-> 1,
                           delays |-> <<>>, current |-> TRUE]]}
    /\ serverDrafts = <<>>
    /\ beacons = <<>>
    /\ triggers = MaxTriggers
    /\ everSaved = FALSE
    /\ lastOutcome = NoOutcome
    /\ lastCall = NoCall
    /\ lastAttempt = [content |-> <<"a">>, sent |-> TRUE]
    /\ rearmed = FALSE

\* the scheduler when the save cycle of content "a", started by the debounce
\* timer, has just failed its last attempt and schedules no more retry (a
\* state of SpecSave; the cycles that follow are numbered from the next one)
ExhaustedCycle == MaxTriggers - TriggersAfterExhaustion

InitSaveExhausted ==
    /\ content = <<"a">>
    /\ keystrokes = <<>>
    /\ auth_token = TRUE
    /\ signify_draft_id = NoDraftId
    /\ internalDraftId = NoDraftId
    /\ saveStatus = "error"
    /\ saveTimeoutRef = {}
    /\ retryCountRef = MAX_RETRIES
    /\ lastSaveRef = <<>>
    /\ isUnloadingRef = FALSE
    /\ mounted = TRUE
    /\ retryTimers = {}
    /\ fetches = {}
    /\ serverDrafts = <<>>
    /\ beacons = <<>>
    /\ triggers = ExhaustedCycle
    /\ everSaved = FALSE
    /\ lastOutcome = [h |-> [cycle |-> ExhaustedCycle, attempt |-> MAX_RETRIES + 1,
                             requests |-> MAX_RETRIES + 1,
                             delays |-> [n \in 1..MAX_RETRIES |-> RetryDelay(n - 1)],
                             current |-> TRUE],
                      ok |-> FALSE]
    /\ lastCall = NoCall
    /\ lastAttempt = [content |-> <<"a">>, sent |-> TRUE]
    /\ rearmed = FALSE

\* a session that stays logged in and on the page
NextSave ==
    \/ \E text \in EditorTexts : ContentChange(text)
    \/ KeystrokesChange
    \/ DebounceFire
    \/ handleVisibilityChange
    \/ ManualSave
    \/ RetryFire
    \/ ResponseOk
    \/ ResponseError
    \/ clearDraft

\* a session that stays on the page and may log out and in again
NextSaveLogin ==
    \/ NextSave
    \/ \E present \in BOOLEAN : SetAuthToken(present)

\* a session in which the component may unmount
NextSaveTeardown ==
    \/ NextSave
    \/ UnmountSave

\* a session in which the page may be left
NextSaveUnload ==
    \/ NextSave
    \/ handleBeforeUnload

\* the steps that end the login or the page
NextSaveSession ==
    \/ \E present \in BOOLEAN : SetAuthToken(present)
    \/ handleBeforeUnload
    \/ UnmountSave

(***************************************************************************)
(* Draft Store: data.                                                      *)
(***************************************************************************)
\* users.id of the registered users
Users == {1, 2}
\* the value of a member an object does not have; node-postgres sends it as
\* NULL, which is no users.id and equals no user_id
Undefined == 0
\* the payload generateToken signs for user u and verifyToken returns
generateToken(u) == [userId |-> u, email |-> u]
\* authMiddleware: c.set('user', payload), the value c.get('user') returns
authMiddleware(u) == generateToken(u)
\* user.id, as the handlers of the draft routes read it from c.get('user')
UserId(user) == IF "id" \in DOMAIN user THEN user.id ELSE Undefined
\* the UUIDs gen_random_uuid() can produce
DraftIds == {"d1", "d2"}
\* a draftId of a request body that is not the text of a UUID
NotAUuid == "not-a-uuid"
\* whether a text parameter can be cast to column type UUID
IsUuid(id) == id \in DraftIds

\* content strings, as sequences of characters
Contents == { <<>>, <<"a">>, <<"a", " ", "b">> }

\* keystroke events in the API shape of transformKeystrokesForAPI
KeyA == [timestamp |-> 1, character |-> "a", event_type |-> "keydown"]
KeyB == [timestamp |-> 2, character |-> "b", event_type |-> "keydown"]
KeyBackspace == [timestamp |-> 3, character |-> "Backspace", event_type |-> "backspace"]

\* the keystrokes arrays a save request submits: empty, one event, two events
\* with decreasing timestamps, and one with a backspace event
KeystrokeArrays == { <<>>, <<KeyA>>, <<KeyB, KeyA>>, <<KeyA, KeyBackspace>> }

\* content.split(" ").length: one more than the number of blanks
WordCountByBlanks(s) == Cardinality({i \in 1..Len(s) : s[i] = " "}) + 1

RECURSIVE WordCount(_)
\* body.content.trim().split(/\s+/).filter(word => word.length > 0).length
WordCount(s) ==
    IF s = <<>> THEN 0
    ELSE IF IsSpace(Head(s)) THEN WordCount(Tail(s))
         ELSE IF Len(s) = 1 \/ IsSpace(s[2]) THEN 1 + WordCount(Tail(s))
              ELSE WordCount(Tail(s))

\* contents of one, two and four words, with leading, trailing and repeated
\* whitespace, and of whitespace alone
HelloWorld == <<"H", "e", "l", "l", "o", " ", "w", "o", "r", "l", "d">>
HelloWorldWideWeb ==
    HelloWorld \o <<" ", "w", "i", "d", "e", " ", "w", "e", "b">>
CountedContents ==
    { HelloWorld, HelloWorldWideWeb, <<" ", "\t">>,
      <<" ", "a", " ", "\n", "b", " ">>, <<"a">> }
\* a wordCount member of the request body: absent (<<>>), or a number no
\* content of the model has
ClientCounts == {<<>>, <<7>>}

\* CHECK (event_type IN ('keydown', 'keyup', 'input', 'delete'))
AllowedEventTypes == {"keydown", "keyup", "input", "delete"}

\* the constraints of draft_keystroke_events on one row
RowAccepted(ev) ==
    /\ ev.event_type \in AllowedEventTypes
    /\ Len(ev.character) <= 10

NoBody == [content |-> <<>>, keystrokes |-> <<>>, draftId |-> NULL]
NoResp == [status |-> 0, success |-> FALSE, error |-> "", data |-> <<>>]

IdleReq ==
    [op |-> "idle", pc |-> "idle", user |-> 0, body |-> NoBody,
     now |-> 0, draftId |-> NULL, draft |-> {},
     \* history, read by no handler: the draft's rows and log before the row
     \* statement, the save handlers running when this one began, and the
     \* saves in their replace step when a get read the log
     old |-> {}, before |-> <<>>, conc |-> {}, mid |-> {},
     \* history: the tables when the handler began, and whether one of its
     \* queries failed because the database could not be reached
     start |-> [drafts |-> {}, log |-> <<>>], unavailable |-> FALSE,
     resp |-> NoResp]

ReqIds == {1, 2}

Active(q) == req[q].pc \notin {"idle", "done"}

ErrorResp(status, msg) ==
    [status |-> status, success |-> FALSE, error |-> msg, data |-> <<>>]

(***************************************************************************)
(* Draft Store: app.post('/draft').                                        *)
(***************************************************************************)
\* the handler up to its first query: body parsed, content validated,
\* wordCount and now computed
\* a handler without the test of the content
ContentMissingIgnored(body) == FALSE

\* !body.content: the member is absent or the empty string (both <<>>)
ContentMissing(body) == body.content = <<>>

SaveStart(r, u, body) ==
    /\ req[r].pc = "idle"
    /\ clock < MaxClock
    /\ IF ContentMissing(body)
       THEN /\ req' = [req EXCEPT ![r] =
                  [IdleReq EXCEPT !.op = "save", !.pc = "done", !.user = u,
                                  !.body = body,
                                  !.resp = ErrorResp(400, "Content is required")]]
            /\ UNCHANGED clock
       ELSE /\ req' = [req EXCEPT ![r] =
                  [IdleReq EXCEPT !.op = "save", !.pc = "row", !.user = u,
                                  !.body = body, !.now = clock + 1,
                                  !.draftId = body.draftId,
                                  !.start = [drafts |-> drafts,
                                             log |-> draft_keystroke_events],
                                  !.conc = {q \in ReqIds \ {r} :
                                              Active(q) /\ req[q].op = "save"}]]
            /\ clock' = clock + 1
    /\ UNCHANGED <<drafts, draft_keystroke_events>>
    /\ OnlyStore

\* a WHERE clause that tests the id alone
RowMatchesAnyUser(d, id, user) == d.id = id

\* WHERE id = $5 AND user_id = $6
RowMatches(d, id, user) == d.id = id /\ d.user_id = user

\* an UPDATE that sets nothing
UpdatedRowKept(d, q) == d

\* SET title = $1, content = $2, word_count = $3, last_saved_at = $4
UpdatedRow(d, q) ==
    [d EXCEPT !.content = q.body.content,
              !.word_count = WordCount(q.body.content),
              !.last_saved_at = q.now]

\* UPDATE drafts SET ... WHERE id = $5 AND user_id = $6 RETURNING *
\* (a draftId that is not the text of a UUID makes the statement fail)
SaveUpdate(r) ==
    LET q == req[r]
        hit == {d \in drafts : RowMatches(d, q.draftId, q.user)}
        new == {UpdatedRow(d, q) : d \in hit}
    IN  /\ q.pc = "row"
        /\ q.draftId # NULL
        /\ IF ~IsUuid(q.draftId)
           THEN /\ req' = [req EXCEPT ![r].pc = "done",
                              ![r].resp = ErrorResp(500, "Failed to save draft")]
                /\ UNCHANGED drafts
           ELSE IF hit = {}
           THEN /\ req' = [req EXCEPT ![r].pc = "done",
                              ![r].resp = ErrorResp(404, "Draft not found or access denied")]
                /\ UNCHANGED drafts
           ELSE /\ drafts' = (drafts \ hit) \cup new
                /\ req' = [req EXCEPT ![r].pc = "delete", ![r].draft = new,
                              ![r].old = hit,
                              ![r].before = RowEvents(SelectRows(draft_keystroke_events, q.draftId))]
        /\ UNCHANGED <<draft_keystroke_events, clock>>
        /\ OnlyStore

\* INSERT INTO drafts (...) VALUES (...) RETURNING *
SaveInsert(r) ==
    LET q == req[r] IN
    /\ q.pc = "row"
    /\ q.draftId = NULL
    /\ q.user \in Users
    /\ \E id \in DraftIds :
         /\ \A d \in drafts : d.id # id
         /\ LET row == [id |-> id, user_id |-> q.user, content |-> q.body.content,
                        word_count |-> WordCount(q.body.content),
                        last_saved_at |-> q.now]
            IN  /\ drafts' = drafts \cup {row}
                /\ req' = [req EXCEPT ![r].pc = "delete", ![r].draft = {row},
                              ![r].draftId = id,
                              ![r].before = RowEvents(SelectRows(draft_keystroke_events, id))]
    /\ UNCHANGED <<draft_keystroke_events, clock>>
    /\ OnlyStore

\* the INSERT with a user_id that is NULL: user_id INTEGER NOT NULL rejects
\* the row and the catch block answers
SaveInsertRejected(r) ==
    /\ req[r].pc = "row"
    /\ req[r].draftId = NULL
    /\ req[r].user \notin Users
    /\ req' = [req EXCEPT ![r].pc = "done",
                  ![r].resp = ErrorResp(500, "Failed to save draft")]
    /\ UNCHANGED <<drafts, draft_keystroke_events, clock>>
    /\ OnlyStore

\* DELETE FROM draft_keystroke_events WHERE draft_id = $1
DeleteLogNever(t, d) == t
DeleteLog(t, d) == DeleteRows(t, d)

SaveDeleteLog(r) ==
    /\ req[r].pc = "delete"
    /\ draft_keystroke_events' = DeleteLog(draft_keystroke_events, req[r].draftId)
    /\ req' = [req EXCEPT ![r].pc = "insertLog"]
    /\ UNCHANGED <<drafts, clock>>
    /\ OnlyStore

\* the rows of the bulk INSERT INTO draft_keystroke_events
LogRows(draftId, ks) ==
    [i \in 1..Len(ks) |->
        [draft_id |-> draftId, timestamp |-> ks[i].timestamp,
         character |-> ks[i].character,
         event_type |-> ks[i].event_type]]

SaveResponse(draft) ==
    [status |-> 200, success |-> TRUE, error |-> "",
     data |-> [draftId |-> draft.id, savedAt |-> draft.last_saved_at,
               wordCount |-> draft.word_count]]

\* the bulk insert (skipped for an empty array) and the success response
SaveInsertLog(r) ==
    LET q == req[r]
        ks == q.body.keystrokes
    IN  /\ q.pc = "insertLog"
        /\ IF \A i \in 1..Len(ks) : RowAccepted(ks[i])
           THEN /\ draft_keystroke_events' =
                       draft_keystroke_events \o LogRows(q.draftId, ks)
                /\ req' = [req EXCEPT ![r].pc = "done",
                              ![r].resp = SaveResponse(CHOOSE d \in q.draft : TRUE)]
           ELSE \* the statement is rejected: catch block
                /\ UNCHANGED draft_keystroke_events
                /\ req' = [req EXCEPT ![r].pc = "done",
                              ![r].resp = ErrorResp(500, "Failed to save draft")]
        /\ UNCHANGED <<drafts, clock>>
        /\ OnlyStore

\* a query throws (connection lost, timeout): catch block
SaveQueryFails(r) ==
    /\ req[r].op = "save"
    /\ req[r].pc \in {"row", "delete", "insertLog"}
    /\ req' = [req EXCEPT ![r].pc = "done", ![r].unavailable = TRUE,
                  ![r].resp = ErrorResp(500, "Failed to save draft")]
    /\ UNCHANGED <<drafts, draft_keystroke_events, clock>>
    /\ OnlyStore

(***************************************************************************)
(* Draft Store: app.get('/draft/:id').                                     *)
(***************************************************************************)
Injections(n) == {f \in [1..n -> 1..n] : \A i, j \in 1..n : f[i] = f[j] => i = j}

\* ORDER BY timestamp ASC: every order of the rows with non-decreasing
\* timestamps (the order of rows with equal timestamps is not specified)
OrderByTimestamp(rows) ==
    { [i \in 1..Len(rows) |-> rows[f[i]]] : f \in
        {g \in Injections(Len(rows)) :
            \A i, j \in 1..Len(rows) :
                i < j => rows[g[i]].timestamp <= rows[g[j]].timestamp} }

GetStart(r, u, id) ==
    /\ req[r].pc = "idle"
    /\ req' = [req EXCEPT ![r] =
          [IdleReq EXCEPT !.op = "get", !.pc = "selDraft", !.user = u,
                          !.draftId = id]]
    /\ UNCHANGED <<drafts, draft_keystroke_events, clock>>
    /\ OnlyStore

\* SELECT * FROM drafts WHERE id = $1 AND user_id = $2
GetSelectDraft(r) ==
    LET q == req[r]
        hit == {d \in drafts : d.id = q.draftId /\ d.user_id = q.user}
    IN  /\ q.pc = "selDraft"
        /\ IF ~IsUuid(q.draftId)
           THEN \* the cast of $1 to UUID fails: catch block
                req' = [req EXCEPT ![r].pc = "done",
                           ![r].resp = ErrorResp(500, "Failed to fetch draft")]
           ELSE IF hit = {}
           THEN req' = [req EXCEPT ![r].pc = "done",
                           ![r].resp = ErrorResp(404, "Draft not found")]
           ELSE req' = [req EXCEPT ![r].pc = "selLog", ![r].draft = hit]
        /\ UNCHANGED <<drafts, draft_keystroke_events, clock>>
        /\ OnlyStore

\* the saves on draft d that have run their row statement and not yet
\* answered: each with the log it found and the log it submits
MidSave(d) ==
    { [before |-> req[q].before, keystrokes |-> req[q].body.keystrokes] :
        q \in {p \in ReqIds : /\ req[p].op = "save"
                              /\ req[p].pc \in {"delete", "insertLog"}
                              /\ req[p].draftId = d} }

\* SELECT * FROM draft_keystroke_events WHERE draft_id = $1 ORDER BY timestamp ASC
GetSelectLog(r) ==
    LET q == req[r] IN
    /\ q.pc = "selLog"
    /\ \E rows \in OrderByTimestamp(SelectRows(draft_keystroke_events, q.draftId)) :
         req' = [req EXCEPT ![r].pc = "done", ![r].mid = MidSave(q.draftId),
                    ![r].resp = [status |-> 200, success |-> TRUE, error |-> "",
                                 data |-> [draft |-> CHOOSE d \in q.draft : TRUE,
                                           keystrokes |-> rows]]]
    /\ UNCHANGED <<drafts, draft_keystroke_events, clock>>
    /\ OnlyStore

GetQueryFails(r) ==
    /\ req[r].pc \in {"selDraft", "selLog"}
    /\ req' = [req EXCEPT ![r].pc = "done", ![r].unavailable = TRUE,
                  ![r].resp = ErrorResp(500, "Failed to fetch draft")]
    /\ UNCHANGED <<drafts, draft_keystroke_events, clock>>
    /\ OnlyStore

(***************************************************************************)
(* Draft Store: app.get('/drafts') and app.delete('/draft/:id').           *)
(***************************************************************************)
\* ORDER BY last_saved_at DESC: every order of the rows with non-increasing
\* last_saved_at
OrderByLastSavedDesc(rows) ==
    { l \in [1..Cardinality(rows) -> rows] :
        /\ \A d \in rows : \E i \in DOMAIN l : l[i] = d
        /\ \A i, j \in DOMAIN l :
              i < j => l[i].last_saved_at >= l[j].last_saved_at }

ListStart(r, u) ==
    /\ req[r].pc = "idle"
    /\ req' = [req EXCEPT ![r] =
          [IdleReq EXCEPT !.op = "list", !.pc = "selList", !.user = u]]
    /\ UNCHANGED <<drafts, draft_keystroke_events, clock>>
    /\ OnlyStore

\* SELECT * FROM drafts WHERE user_id = $1 ORDER BY last_saved_at DESC
ListSelect(r) ==
    LET q == req[r] IN
    /\ q.pc = "selList"
    /\ \E rows \in OrderByLastSavedDesc({d \in drafts : d.user_id = q.user}) :
          req' = [req EXCEPT ![r].pc = "done",
                     ![r].resp = [status |-> 200, success |-> TRUE, error |-> "",
                                  data |-> rows]]
    /\ UNCHANGED <<drafts, draft_keystroke_events, clock>>
    /\ OnlyStore

DeleteStart(r, u, id) ==
    /\ req[r].pc = "idle"
    /\ req' = [req EXCEPT ![r] =
          [IdleReq EXCEPT !.op = "delete", !.pc = "delDraft", !.user = u,
                          !.draftId = id,
                          !.start = [drafts |-> drafts,
                                     log |-> draft_keystroke_events]]]
    /\ UNCHANGED <<drafts, draft_keystroke_events, clock>>
    /\ OnlyStore

\* a foreign key without ON DELETE CASCADE that is not enforced
CascadeNone(t, d) == t

\* draft_id UUID NOT NULL REFERENCES drafts(id) ON DELETE CASCADE
Cascade(t, d) == DeleteRows(t, d)

\* DELETE FROM drafts WHERE id = $1 AND user_id = $2 RETURNING id
DeleteDraft(r) ==
    LET q == req[r]
        hit == {d \in drafts : d.id = q.draftId /\ d.user_id = q.user}
    IN  /\ q.pc = "delDraft"
        /\ IF ~IsUuid(q.draftId)
           THEN /\ req' = [req EXCEPT ![r].pc = "done",
                              ![r].resp = ErrorResp(500, "Failed to delete draft")]
                /\ UNCHANGED <<drafts, draft_keystroke_events>>
           ELSE IF hit = {}
           THEN /\ req' = [req EXCEPT ![r].pc = "done",
                              ![r].resp = ErrorResp(404, "Draft not found")]
                /\ UNCHANGED <<drafts, draft_keystroke_events>>
           ELSE /\ drafts' = drafts \ hit
                /\ draft_keystroke_events' = Cascade(draft_keystroke_events, q.draftId)
                /\ req' = [req EXCEPT ![r].pc = "done", ![r].old = hit,
                              ![r].resp = [status |-> 200, success |-> TRUE,
                                           error |-> "", data |-> <<>>]]
        /\ UNCHANGED clock
        /\ OnlyStore

\* the query of list or delete throws: catch block
AuxQueryFails(r) ==
    /\ req[r].pc \in {"selList", "delDraft"}
    /\ req' = [req EXCEPT ![r].pc = "done", ![r].unavailable = TRUE,
                  ![r].resp = ErrorResp(500, IF req[r].op = "list"
                                             THEN "Failed to fetch drafts"
                                             ELSE "Failed to delete draft")]
    /\ UNCHANGED <<drafts, draft_keystroke_events, clock>>
    /\ OnlyStore

\* the response has been sent; the handler is gone
Finish(r) ==
    /\ req[r].pc = "done"
    /\ req' = [req EXCEPT ![r] = IdleReq]
    /\ UNCHANGED <<drafts, draft_keystroke_events, clock>>
    /\ OnlyStore

SaveBodies ==
    [content : Contents, keystrokes : KeystrokeArrays,
     draftId : DraftIds \cup {NULL, NotAUuid}]

InitStore ==
    /\ drafts = {}
    /\ draft_keystroke_events = <<>>
    /\ clock = 0
    /\ req = [r \in ReqIds |-> IdleReq]

\* no other handler is running or awaiting delivery
Alone(r) == \A q \in ReqIds \ {r} : req[q].pc = "idle"

StoreStep(r) ==
    \/ SaveUpdate(r)
    \/ SaveInsert(r)
    \/ SaveDeleteLog(r)
    \/ SaveInsertLog(r)
    \/ SaveQueryFails(r)
    \/ GetSelectDraft(r)
    \/ GetSelectLog(r)
    \/ GetQueryFails(r)
    \/ Finish(r)

\* requests executed one at a time
NextStore ==
    \E r \in ReqIds :
        \/ \E u \in Users, body \in SaveBodies : Alone(r) /\ SaveStart(r, u, body)
        \/ \E u \in Users, id \in DraftIds : Alone(r) /\ GetStart(r, u, id)
        \/ StoreStep(r)

\* the saves that fill the tables for the auxiliary routes
AuxBodies ==
    [content : {<<"a">>}, keystrokes : {<<KeyA>>, <<KeyB, KeyA>>},
     draftId : {NULL, "d1"}]

\* the four routes, requests executed one at a time; ids of the path
\* parameter are UUIDs or not
NextStoreAux ==
    \E r \in ReqIds :
        \/ \E u \in Users, body \in AuxBodies : Alone(r) /\ SaveStart(r, u, body)
        \/ \E u \in Users, id \in DraftIds \cup {NotAUuid} :
              Alone(r) /\ GetStart(r, u, id)
        \/ \E u \in Users : Alone(r) /\ ListStart(r, u)
        \/ \E u \in Users, id \in DraftIds \cup {NotAUuid} :
              Alone(r) /\ DeleteStart(r, u, id)
        \/ StoreStep(r)
        \/ ListSelect(r)
        \/ DeleteDraft(r)
        \/ AuxQueryFails(r)

InitSpecStoreAux == InitStore /\ InitCapture /\ GuardAtRest /\ InitSave
SpecStoreAux == InitSpecStoreAux /\ [][NextStoreAux]_vars

\* the four routes behind authMiddleware, requests executed one at a time:
\* the handlers read the caller's id from the context the middleware set.
\* (No row statement of a save succeeds, so the statements on the keystroke
\* log and the second query of get-draft are never reached.)
NextStoreAuth ==
    \E r \in ReqIds :
        \/ \E u \in Users, body \in AuxBodies :
              Alone(r) /\ SaveStart(r, UserId(authMiddleware(u)), body)
        \/ \E u \in Users, id \in DraftIds :
              Alone(r) /\ GetStart(r, UserId(authMiddleware(u)), id)
        \/ \E u \in Users : Alone(r) /\ ListStart(r, UserId(authMiddleware(u)))
        \/ \E u \in Users, id \in DraftIds :
              Alone(r) /\ DeleteStart(r, UserId(authMiddleware(u)), id)
        \/ SaveUpdate(r)
        \/ SaveInsertRejected(r)
        \/ SaveQueryFails(r)
        \/ GetSelectDraft(r)
        \/ GetQueryFails(r)
        \/ ListSelect(r)
        \/ DeleteDraft(r)
        \/ AuxQueryFails(r)
        \/ Finish(r)

InitSpecStoreAuth == InitStore /\ InitCapture /\ GuardAtRest /\ InitSave
SpecStoreAuth == InitSpecStoreAuth /\ [][NextStoreAuth]_vars

\* save requests that carry a count of their own
CountedBodies ==
    [content : CountedContents, keystrokes : {<<KeyA>>},
     draftId : {NULL, "d1"}, wordCount : ClientCounts]

\* saves executed one at a time
NextStoreCount ==
    \E r \in ReqIds :
        \/ \E u \in Users, body \in CountedBodies : Alone(r) /\ SaveStart(r, u, body)
        \/ SaveUpdate(r)
        \/ SaveInsert(r)
        \/ SaveDeleteLog(r)
        \/ SaveInsertLog(r)
        \/ SaveQueryFails(r)
        \/ Finish(r)

InitSpecStoreCount == InitStore /\ InitCapture /\ GuardAtRest /\ InitSave
SpecStoreCount == InitSpecStoreCount /\ [][NextStoreCount]_vars

InitSpecStore == InitStore /\ InitCapture /\ GuardAtRest /\ InitSave
SpecStore == InitSpecStore /\ [][NextStore]_vars

\* the stored keystroke log of draft d, in the API shape
StoredLog(d) == RowEvents(SelectRows(draft_keystroke_events, d))

\* the store after user 1 has saved a first draft with one keystroke (a state
\* of SpecStore; clock values are relative to this save)
InitStoreConc ==
    /\ drafts = {[id |-> "d1", user_id |-> 1, content |-> <<"a">>,
                  word_count |-> WordCount(<<"a">>), last_saved_at |-> 0]}
    /\ draft_keystroke_events = LogRows("d1", <<KeyA>>)
    /\ clock = 0
    /\ req = [r \in ReqIds |-> IdleReq]

\* the saves of the overlapping clients: updates of the draft and new drafts
ConcBodies ==
    [content : {<<"a", " ", "b">>}, keystrokes : {<<KeyA>>, <<KeyB, KeyA>>},
     draftId : {"d1", NULL}]

\* requests that overlap: a handler is suspended at each await
NextStoreConc ==
    \E r \in ReqIds :
        \/ \E u \in Users, body \in ConcBodies : SaveStart(r, u, body)
        \/ \E u \in Users, id \in DraftIds : GetStart(r, u, id)
        \/ StoreStep(r)

InitSpecStoreConc == InitStoreConc /\ InitCapture /\ GuardAtRest /\ InitSave
SpecStoreConc == InitSpecStoreConc /\ [][NextStoreConc]_vars

(***************************************************************************)
(* Draft Store: properties.                                                *)
(***************************************************************************)
\* C1: with requests executed one at a time, when a save has answered success
\* the stored keystroke log of its draft is exactly the keystrokes array it
\* submitted, in the submitted order: replaced, not appended.
SaveReplacesLog ==
    \A r \in ReqIds :
        (req[r].op = "save" /\ req[r].pc = "done" /\ req[r].resp.success)
            => StoredLog(req[r].draftId) = req[r].body.keystrokes

\* C1 witness: a successful save replaced a non-empty log by a different
\* non-empty array
SaveReplacedOlderLog ==
    \E r \in ReqIds :
        /\ req[r].op = "save" /\ req[r].pc = "done" /\ req[r].resp.success
        /\ req[r].before # <<>>
        /\ req[r].body.keystrokes # <<>>
        /\ req[r].body.keystrokes # req[r].before
        /\ StoredLog(req[r].draftId) = req[r].body.keystrokes

\* C8: a get that reads the log while one save on the same draft is between
\* its row statement and its answer returns the complete log stored before
\* that save or the complete log it submits.
GetSeesCompleteLog ==
    \A r \in ReqIds :
        (req[r].op = "get" /\ req[r].pc = "done" /\ req[r].resp.success
            /\ Cardinality(req[r].mid) = 1)
            => \E m \in req[r].mid :
                  \/ SameBag(RowEvents(req[r].resp.data.keystrokes), m.before)
                  \/ SameBag(RowEvents(req[r].resp.data.keystrokes), m.keystrokes)

\* C9: when two overlapping saves of the same draft have both answered
\* success, the stored log is the keystrokes array of one of them.
OverlappingSavesKeepOneLog ==
    \A r, q \in ReqIds :
        (/\ r # q
         /\ req[r].op = "save" /\ req[r].pc = "done" /\ req[r].resp.success
         /\ req[q].op = "save" /\ req[q].pc = "done" /\ req[q].resp.success
         /\ req[r].draftId = req[q].draftId
         /\ q \in req[r].conc)
            => \/ StoredLog(req[r].draftId) = req[r].body.keystrokes
               \/ StoredLog(req[r].draftId) = req[q].body.keystrokes

\* C10: a save that fails after its row statement leaves the draft row and
\* the stored log as they were before the request.
FailedSaveChangesNothing ==
    \A r \in ReqIds :
        (req[r].op = "save" /\ req[r].pc = "done" /\ ~req[r].resp.success
            /\ req[r].draft # {})
            => /\ {d \in drafts : d.id = req[r].draftId} = req[r].old
               /\ StoredLog(req[r].draftId) = req[r].before

\* the draftId of save q is the id of a draft of another user
NamesForeignDraft(q) ==
    \E d \in q.start.drafts : d.id = q.body.draftId /\ d.user_id # q.user

\* the draftId of save q is given and is the id of no draft
NamesNoDraft(q) ==
    /\ q.body.draftId # NULL
    /\ \A d \in q.start.drafts : d.id # q.body.draftId

\* a save that passed validation has answered, the database being reachable
SaveAnswered(q) ==
    q.op = "save" /\ q.pc = "done" /\ q.body.content # <<>> /\ ~q.unavailable

\* C11 as stated: a save whose draftId belongs to another caller and a save
\* whose draftId names no draft get the same answer, 404 with the one error
\* body, and leave every draft row and every keystroke log as they were.
UnownedDraftRefusedAlike ==
    \A r \in ReqIds :
        (SaveAnswered(req[r]) /\ (NamesForeignDraft(req[r]) \/ NamesNoDraft(req[r])))
            => /\ req[r].resp = ErrorResp(404, "Draft not found or access denied")
               /\ drafts = req[r].start.drafts
               /\ draft_keystroke_events = req[r].start.log

\* C11 amended: the same for a draftId that is the text of a UUID; a draftId
\* that is not gets 500 with the error body of a failed save, and changes
\* nothing either.
UnownedUuidRefusedAlike ==
    \A r \in ReqIds :
        (SaveAnswered(req[r]) /\ (NamesForeignDraft(req[r]) \/ NamesNoDraft(req[r])))
            => /\ req[r].resp =
                    IF IsUuid(req[r].body.draftId)
                    THEN ErrorResp(404, "Draft not found or access denied")
                    ELSE ErrorResp(500, "Failed to save draft")
               /\ drafts = req[r].start.drafts
               /\ draft_keystroke_events = req[r].start.log

\* C11 witness: a save on the draft of another user, which has a keystroke
\* log, was answered 404
ForeignDraftRefused ==
    \E r \in ReqIds :
        /\ SaveAnswered(req[r])
        /\ NamesForeignDraft(req[r])
        /\ req[r].resp.status = 404
        /\ StoredLog(req[r].body.draftId) # <<>>

\* C14: with requests executed one at a time, a successful save without
\* draftId has added exactly one row, owned by the caller, and answers its
\* id; a successful save with a draftId has added no row, has rewritten the
\* caller's row of that id in place and answers the same id; and no save
\* with a draftId changes the number of rows.
SaveCreatesOrUpdatesOneRow ==
    \A r \in ReqIds :
        LET q == req[r]
            mine == {d \in drafts : d.id = q.resp.data.draftId}
        IN  /\ (q.op = "save" /\ q.pc = "done" /\ q.resp.success
                   /\ q.body.draftId = NULL)
                  => /\ Cardinality(mine) = 1
                     /\ drafts = q.start.drafts \cup mine
                     /\ mine \cap q.start.drafts = {}
                     /\ \A d \in q.start.drafts : d.id # q.resp.data.draftId
                     /\ \A d \in mine : d.user_id = q.user
                                        /\ d.content = q.body.content
            /\ (q.op = "save" /\ q.pc = "done" /\ q.resp.success
                   /\ q.body.draftId # NULL)
                  => /\ q.resp.data.draftId = q.body.draftId
                     /\ Cardinality(mine) = 1
                     /\ \A d \in mine : d.user_id = q.user
                                        /\ d.content = q.body.content
                     /\ {d.id : d \in drafts} = {d.id : d \in q.start.drafts}
                     /\ drafts \ mine =
                          {d \in q.start.drafts : d.id # q.body.draftId}
            /\ (q.op = "save" /\ q.pc = "done" /\ q.body.content # <<>>
                   /\ q.body.draftId # NULL)
                  => Cardinality(drafts) = Cardinality(q.start.drafts)

\* C14 witness: a successful save with a draftId rewrote the content of the
\* caller's row and left the table with the same single row id
SaveUpdatedRowInPlace ==
    \E r \in ReqIds :
        /\ req[r].op = "save" /\ req[r].pc = "done" /\ req[r].resp.success
        /\ req[r].body.draftId # NULL
        /\ req[r].resp.data.draftId = req[r].body.draftId
        /\ \E d \in req[r].start.drafts :
              d.id = req[r].body.draftId /\ d.content # req[r].body.content
        /\ Cardinality(drafts) = 1

(***************************************************************************)
(* Draft Store: word count, validation and the auxiliary routes.           *)
(***************************************************************************)
\* the number of maximal runs of non-whitespace characters of s
TokenCount(s) ==
    Cardinality({i \in 1..Len(s) :
                    /\ s[i] \notin {" ", "\t", "\n"}
                    /\ i = 1 \/ s[i - 1] \in {" ", "\t", "\n"}})

\* C31: when a save has answered success, the wordCount it returns and the
\* word_count of the row it wrote are the number of whitespace-delimited
\* non-empty tokens of the submitted content (2 for "Hello world", 4 for
\* "Hello world wide web", 0 for whitespace alone), whatever count the
\* request carried.
WordCountIsTokenCount ==
    \A r \in ReqIds :
        LET q == req[r] IN
        (q.op = "save" /\ q.pc = "done" /\ q.resp.success)
            => /\ q.resp.data.wordCount = TokenCount(q.body.content)
               /\ \A d \in drafts :
                     d.id = q.resp.data.draftId
                        => d.word_count = TokenCount(q.body.content)
               /\ q.body.content = HelloWorld => q.resp.data.wordCount = 2
               /\ q.body.content = HelloWorldWideWeb => q.resp.data.wordCount = 4
               /\ (\A i \in 1..Len(q.body.content) :
                      q.body.content[i] \in {" ", "\t", "\n"})
                     => q.resp.data.wordCount = 0

\* C31 witness: a save of whitespace alone that carried the count 7 was
\* stored and answered with the count 0
BlankContentCountsZero ==
    \E r \in ReqIds :
        /\ req[r].op = "save" /\ req[r].pc = "done" /\ req[r].resp.success
        /\ req[r].body.content = <<" ", "\t">>
        /\ req[r].body.wordCount = <<7>>
        /\ req[r].resp.data.wordCount = 0
        /\ \E d \in drafts : d.id = req[r].resp.data.draftId /\ d.word_count = 0

\* C32: a save whose content is missing or empty is answered 400 "Content is
\* required" by the step that receives it, which runs no statement: it never
\* reaches the row statement, and no draft row and no keystroke log changes
\* while it is answered.
EmptyContentRejected ==
    [][\A r \in ReqIds :
          (req'[r].op = "save" /\ req'[r].body.content = <<>>)
             => /\ req'[r].pc = "done"
                /\ req'[r].resp = ErrorResp(400, "Content is required")
                /\ drafts' = drafts
                /\ draft_keystroke_events' = draft_keystroke_events]_vars

\* C32 witness: a save without content that names the caller's own draft,
\* which has a keystroke log, was answered 400
EmptySaveOnOwnDraftRefused ==
    \E r \in ReqIds :
        /\ req[r].op = "save" /\ req[r].pc = "done"
        /\ req[r].body.content = <<>>
        /\ req[r].body.keystrokes # <<>>
        /\ req[r].resp.status = 400
        /\ \E d \in drafts :
              /\ d.id = req[r].body.draftId /\ d.user_id = req[r].user
              /\ d.content # <<>>
              /\ StoredLog(d.id) # <<>>
              /\ StoredLog(d.id) # req[r].body.keystrokes

\* the path parameter of q is the id of no row of rows that q's caller owns
Unowned(q, rows) == \A d \in rows : d.id = q.draftId => d.user_id # q.user

\* get or delete q has answered, the database being reachable
AuxAnswered(q) == q.op \in {"get", "delete"} /\ q.pc = "done" /\ ~q.unavailable

\* C33 as stated: get-draft and delete-draft on a draft the caller does not
\* own get the answer of a nonexistent draft, 404 "Draft not found", and
\* delete-draft then leaves the tables as they were.
AuxUnownedNotFound ==
    \A r \in ReqIds :
        LET q == req[r] IN
        /\ (AuxAnswered(q) /\ q.op = "get" /\ Unowned(q, drafts))
              => q.resp = ErrorResp(404, "Draft not found")
        /\ (AuxAnswered(q) /\ q.op = "delete" /\ Unowned(q, q.start.drafts))
              => /\ q.resp = ErrorResp(404, "Draft not found")
                 /\ drafts = q.start.drafts
                 /\ draft_keystroke_events = q.start.log

\* what the auxiliary routes have answered and done
AuxOutcome ==
    \A r \in ReqIds :
        LET q == req[r]
            listed == q.resp.data
        IN
        /\ (q.op = "list" /\ q.pc = "done" /\ ~q.unavailable)
              => /\ q.resp.success
                 /\ {listed[i] : i \in DOMAIN listed} =
                       {d \in drafts : d.user_id = q.user}
                 /\ Len(listed) = Cardinality({d \in drafts : d.user_id = q.user})
                 /\ \A i, j \in DOMAIN listed :
                       i < j => listed[i].last_saved_at > listed[j].last_saved_at
        /\ (AuxAnswered(q) /\ q.op = "get" /\ Unowned(q, drafts))
              => q.resp = IF IsUuid(q.draftId)
                          THEN ErrorResp(404, "Draft not found")
                          ELSE ErrorResp(500, "Failed to fetch draft")
        /\ (AuxAnswered(q) /\ q.op = "get" /\ ~Unowned(q, drafts))
              => /\ q.resp.success
                 /\ q.resp.data.draft \in drafts
                 /\ q.resp.data.draft.user_id = q.user
        /\ (AuxAnswered(q) /\ q.op = "delete" /\ Unowned(q, q.start.drafts))
              => /\ q.resp = IF IsUuid(q.draftId)
                             THEN ErrorResp(404, "Draft not found")
                             ELSE ErrorResp(500, "Failed to delete draft")
                 /\ drafts = q.start.drafts
                 /\ draft_keystroke_events = q.start.log
        /\ (AuxAnswered(q) /\ q.op = "delete" /\ ~Unowned(q, q.start.drafts))
              => /\ q.resp.success
                 /\ drafts = {d \in q.start.drafts : d.id # q.draftId}
                 /\ draft_keystroke_events = DeleteRows(q.start.log, q.draftId)
                 /\ StoredLog(q.draftId) = <<>>

\* C33 amended: list-drafts returns exactly the caller's drafts, most recently
\* saved first; get-draft and delete-draft on a draft the caller does not own
\* answer as for a nonexistent draft whose id is a UUID (404) and change
\* nothing, an id that is not a UUID is answered 500 and changes nothing;
\* delete-draft of an owned draft removes the row and its whole log and
\* nothing else; list-drafts and get-draft change no table.
AuxRoutesCheckOwner ==
    [][/\ AuxOutcome'
       /\ (\E r \in ReqIds : req'[r].op \in {"get", "list"})
             => UNCHANGED <<drafts, draft_keystroke_events>>]_vars

\* C33 witness: a caller has deleted a draft of theirs that had a keystroke
\* log, and the draft of the other user and its log are still stored
OwnDraftDeletedOtherKept ==
    \E r \in ReqIds :
        /\ req[r].op = "delete" /\ req[r].pc = "done" /\ req[r].resp.success
        /\ SelectRows(req[r].start.log, req[r].draftId) # <<>>
        /\ StoredLog(req[r].draftId) = <<>>
        /\ \E d \in drafts : d.user_id # req[r].user /\ StoredLog(d.id) # <<>>

\* C34: with requests executed one at a time, a get-draft that has answered
\* success returns the keystroke log in the order of the stored rows, which
\* is the order of the keystrokes array of the latest successful save of the
\* draft (C1): the same sequence, whatever the timestamps of the events.
GetReturnsSubmittedSequence ==
    \A r \in ReqIds :
        (req[r].op = "get" /\ req[r].pc = "done" /\ req[r].resp.success)
            => RowEvents(req[r].resp.data.keystrokes) = StoredLog(req[r].draftId)

\* C35: behind authMiddleware, the owner every handler of the draft routes
\* writes or compares is the id of a user (never undefined or absent), and a
\* save without draftId that passes validation creates the caller's draft
\* when the database is reachable.
CallerIdentityAuthorizes ==
    \A r \in ReqIds :
        LET q == req[r] IN
        /\ q.op # "idle" => q.user \in Users
        /\ (q.op = "save" /\ q.pc = "done" /\ q.body.content # <<>>
               /\ q.body.draftId = NULL /\ ~q.unavailable)
              => /\ q.resp.success
                 /\ \E d \in drafts :
                       d.id = q.resp.data.draftId /\ d.user_id = q.user

(***************************************************************************)
(* Batching Buffer: timer properties.                                      *)
(***************************************************************************)
\* C15: while the hook is mounted with an onBatch callback (and clearEvents
\* is not called), the timer armed when the first buffered event arrived is
\* still pending, so that the event is emitted one interval after it arrived.
BufferedEventHasTimer ==
    (isCapturing /\ onBatch /\ ~cleared /\ batchRef # <<>>)
        => \E t \in batchTimeoutRef : t.armedAt = Head(batchRef).id

\* C16: once the hook is unmounted (with an onBatch callback, clearEvents
\* not called), every classified event has been emitted in a batch: the
\* buffer was handed over before the timer was cancelled.
TeardownFlushesBuffer ==
    (~isCapturing /\ onBatch /\ ~cleared)
        => /\ batchRef = <<>>
           /\ Flatten(emitted) = classified

BufferNeverStranded ==
    (isCapturing /\ batchRef # <<>>) => batchTimeoutRef # {}

(***************************************************************************)
(* Batching Buffer: classification of key and input signals.               *)
(***************************************************************************)
\* the signals that are classified: the press of a key that is not a modifier,
\* and committed composition text with data
Classifies(signal) ==
    \/ signal.listener = "keydown" /\ signal.key \notin ModifierKeys
    \/ /\ signal.listener = "input"
       /\ signal.inputType = "insertCompositionText"
       /\ signal.data # ""

PressYields(key) ==
    IF key = "Backspace" THEN [eventType |-> "backspace", character |-> "Backspace"]
    ELSE IF key = "Delete" THEN [eventType |-> "delete", character |-> "Delete"]
    ELSE IF key = "Enter" THEN [eventType |-> "keydown", character |-> "\n"]
    ELSE IF key = "Tab" THEN [eventType |-> "keydown", character |-> "\t"]
    ELSE [eventType |-> "keydown", character |-> key]

\* C30: the press of a non-modifier key adds exactly one event to the
\* classified events: eventType backspace with character "Backspace" for
\* Backspace, eventType delete for Delete, keydown with a newline for Enter,
\* keydown with a tab for Tab, and keydown with the key's own label otherwise.
KeyPressYieldsOneEvent ==
    [][(lastKey'.listener = "keydown" /\ lastKey'.key \notin ModifierKeys) =>
          /\ Len(classified') = Len(classified) + 1
          /\ SubSeq(classified', 1, Len(classified)) = classified
          /\ LET event == classified'[Len(classified')]
             IN  /\ event.eventType = PressYields(lastKey'.key).eventType
                 /\ event.character = PressYields(lastKey'.key).character]_vars

\* C30 witness: Backspace and Enter pressed in turn
BackspaceThenEnterPressed ==
    /\ Len(classified) = 2
    /\ classified[1].eventType = "backspace"
    /\ classified[1].character = "Backspace"
    /\ classified[2].eventType = "keydown"
    /\ classified[2].character = "\n"
    /\ lastKey = KeySignal("keydown", "Enter")

\* the listeners of the input surface, over every kind of key, and the two
\* deferred callbacks
NextClassify ==
    \/ \E key \in ClassifiedKeys :
          eventIdCounter < MaxPresses /\ handleKeyDown(key)
    \/ \E key \in ClassifiedKeys : handleKeyUp(key)
    \/ \E inputType \in InputTypes, data \in InputData :
          eventIdCounter < MaxPresses /\ handleInput(inputType, data)
    \/ BatchTimeout
    \/ AnimationFrame

\* the hook after its first render, its signals observed
InitClassify ==
    /\ batchRef = <<>>
    /\ batchTimeoutRef = {}
    /\ onBatch = TRUE
    /\ eventIdCounter = 0
    /\ events = <<>>
    /\ lastEvent = {}
    /\ rafQueue = <<>>
    /\ isCapturing = TRUE
    /\ emitted = <<>>
    /\ classified = <<>>
    /\ cleared = FALSE
    /\ lastKey = NoKey

InitSpecCapture == InitStore /\ InitCapture /\ GuardAtRest /\ InitSave
SpecCapture == InitSpecCapture /\ [][NextCapture]_vars
InitSpecClassify == InitStore /\ InitClassify /\ GuardAtRest /\ InitSave
SpecClassify == InitSpecClassify /\ [][NextClassify]_vars

InitSpecGuard == InitStore /\ InitCapture /\ InitGuard /\ InitSave
SpecGuard == InitSpecGuard /\ [][NextGuard]_vars

InitSpecGuardNearFull == InitStore /\ InitCapture /\ InitGuardNearFull /\ InitSave
SpecGuardNearFull == InitSpecGuardNearFull /\ [][NextGuard]_vars

InitSpecSave == InitStore /\ InitCapture /\ GuardAtRest /\ InitSave
SpecSave == InitSpecSave /\ [][NextSave]_vars

InitSpecSaveInFlight == InitStore /\ InitCapture /\ GuardAtRest /\ InitSaveInFlight
SpecSaveInFlight == InitSpecSaveInFlight /\ [][NextSave]_vars

SpecSaveLogin == InitSpecSave /\ [][NextSaveLogin]_vars

SpecSaveTeardown == InitSpecSave /\ [][NextSaveTeardown]_vars

\* the scheduler when the page was hidden while the first save of content
\* "a" was awaiting its response: two requests are in flight (a state of
\* SpecSaveInFlight; no further save cycle is followed)
InitSaveOverlap ==
    /\ content = <<"a">>
    /\ keystrokes = <<>>
    /\ auth_token = TRUE
    /\ signify_draft_id = NoDraftId
    /\ internalDraftId = NoDraftId
    /\ saveStatus = "saving"
    /\ saveTimeoutRef = {}
    /\ retryCountRef = 0
    /\ lastSaveRef = <<>>
    /\ isUnloadingRef = FALSE
    /\ mounted = TRUE
    /\ retryTimers = {}
    /\ fetches = {[cl |-> [content |-> <<"a">>, keystrokes |-> <<>>,
                            draftId |-> NoDraftId],
                    payload |-> [content |-> <<"a">>, keystrokes |-> <<>>,
                                 draftId |-> NoDraftId],
                    h |-> [cycle |-> c, attempt |-> 1, requests |-> 1,
                           delays |-> <<>>, current |-> TRUE]] : c \in {0, 1}}
    /\ serverDrafts = <<>>
    /\ beacons = <<>>
    /\ triggers = MaxTriggers
    /\ everSaved = FALSE
    /\ lastOutcome = NoOutcome
    /\ lastCall = [content |-> <<"a">>, saved |-> <<>>, sent |-> TRUE,
                   prev |-> [content |-> <<"a">>, sent |-> TRUE],
                   draftId |-> NoDraftId, adopted |-> NoDraftId,
                   by |-> "visibility"]
    /\ lastAttempt = [content |-> <<"a">>, sent |-> TRUE]
    /\ rearmed = FALSE

\* the responses and retry timers of the requests in flight
NextSaveOverlap == ResponseOk \/ ResponseError \/ RetryFire

InitSpecSaveOverlap == InitStore /\ InitCapture /\ GuardAtRest /\ InitSaveOverlap
SpecSaveOverlap == InitSpecSaveOverlap /\ [][NextSaveOverlap]_vars

\* the scheduler when beforeunload has run with the unsaved content "a" while
\* the first request with it is awaiting its response, and the page stays
\* open (a state of SpecSave followed by handleBeforeUnload)
InitSaveUnloading ==
    /\ content = <<"a">>
    /\ keystrokes = <<>>
    /\ auth_token = TRUE
    /\ signify_draft_id = NoDraftId
    /\ internalDraftId = NoDraftId
    /\ saveStatus = "saving"
    /\ saveTimeoutRef = {}
    /\ retryCountRef = 0
    /\ lastSaveRef = <<>>
    /\ isUnloadingRef = TRUE
    /\ mounted = TRUE
    /\ retryTimers = {}
    /\ fetches = {[cl |-> [content |-> <<"a">>, keystrokes |-> <<>>,
                            draftId |-> NoDraftId],
                    payload |-> [content |-> <<"a">>, keystrokes |-> <<>>,
                                 draftId |-> NoDraftId],
                    h |-> [cycle |-> 0, attempt |-> 1, requests |-> 1,
                           delays |-> <<>>, current |-> TRUE]]}
    /\ serverDrafts = <<>>
    /\ beacons = sendBeacon([content |-> <<"a">>, keystrokes |-> <<>>,
                             draftId |-> NoDraftId])
    /\ triggers = 0
    /\ everSaved = FALSE
    /\ lastOutcome = NoOutcome
    /\ lastCall = NoCall
    /\ lastAttempt = [content |-> <<"a">>, sent |-> TRUE]
    /\ rearmed = FALSE

InitSpecSaveUnloading == InitStore /\ InitCapture /\ GuardAtRest /\ InitSaveUnloading
SpecSaveUnloading == InitSpecSaveUnloading /\ [][NextSaveUnload]_vars

InitSpecSaveUnload == InitStore /\ InitCapture /\ GuardAtRest /\ InitSaveLastCycle
SpecSaveUnload == InitSpecSaveUnload /\ [][NextSaveUnload]_vars

InitSpecSaveExhausted == InitStore /\ InitCapture /\ GuardAtRest /\ InitSaveExhausted
SpecSaveExhausted == InitSpecSaveExhausted /\ [][NextSave]_vars

(***************************************************************************)
(* Autosave Scheduler: properties.                                         *)
(***************************************************************************)
\* C5 as stated: while no attempt has succeeded, a save cycle makes at most
\* 5 attempts: no 6th request is sent, and after the 5th failure the status
\* is Error with no retry of that cycle pending.
AtMostFiveAttempts ==
    ~everSaved =>
        /\ \A f \in fetches : f.h.attempt <= 5
        /\ lastOutcome.h.attempt <= 5
        /\ (lastOutcome.h.attempt = 5 /\ ~lastOutcome.ok)
              => /\ saveStatus = "error"
                 /\ \A t \in retryTimers : t.h.cycle # lastOutcome.h.cycle

\* C5 amended: while no attempt has succeeded, a save cycle makes at most
\* MAX_RETRIES + 1 = 6 attempts (the initial one and MAX_RETRIES retries): no
\* 7th attempt is sent or scheduled, and after the 6th failure the status is
\* Error with no retry of that cycle pending.
AtMostSixAttempts ==
    ~everSaved =>
        /\ \A f \in fetches : f.h.attempt <= MAX_RETRIES + 1
        /\ \A t \in retryTimers : t.h.attempt <= MAX_RETRIES + 1
        /\ lastOutcome.h.attempt <= MAX_RETRIES + 1
        /\ (lastOutcome.h.attempt = MAX_RETRIES + 1 /\ ~lastOutcome.ok)
              => /\ saveStatus = "error"
                 /\ \A t \in retryTimers : t.h.cycle # lastOutcome.h.cycle

\* C5 witness: the 6th attempt of a cycle has just failed, nothing has ever
\* been saved, and nothing more is sent or scheduled
SixthAttemptFailed ==
    /\ ~everSaved
    /\ lastOutcome.h.attempt = MAX_RETRIES + 1
    /\ ~lastOutcome.ok
    /\ lastOutcome.h.requests = MAX_RETRIES + 1
    /\ saveStatus = "error"
    /\ retryTimers = {}
    /\ fetches = {}

RetrySendsCurrentState ==
    \A f \in fetches : f.h.attempt > 1 => f.h.current

RequestsCarryAdoptedId ==
    (lastCall.sent /\ lastCall.adopted # NoDraftId)
        => lastCall.draftId = lastCall.adopted

StatusMoves ==
    {<<"idle", "saving">>, <<"saving", "saved">>, <<"saving", "error">>,
     <<"saved", "saving">>, <<"error", "saving">>}

StatusFollowsStateMachine ==
    [][ saveStatus' # saveStatus
          => \/ <<saveStatus, saveStatus'>> \in StatusMoves
             \/ saveStatus' = "idle"
      ]_vars

\* C20: when the retries of a cycle were exhausted and nothing has been saved
\* since, and the first attempt of a cycle started by a later trigger has
\* just failed, a retry of that cycle is scheduled with the base delay.
NewCycleRetriesFromBase ==
    (~everSaved /\ ~lastOutcome.ok /\ lastOutcome.h.attempt = 1
       /\ lastOutcome.h.cycle > ExhaustedCycle)
        => \E t \in retryTimers :
              /\ t.h.cycle = lastOutcome.h.cycle
              /\ t.h.attempt = 2
              /\ t.delay = BASE_RETRY_DELAY

(***************************************************************************)
(* Autosave Scheduler: failures, teardown, visibility and unload.          *)
(***************************************************************************)
\* C21: a save attempt that fails because no auth token is available leaves
\* the status Error and schedules no retry of its cycle.
NoRetryWithoutToken ==
    (lastCall.content # <<>> /\ ~lastCall.sent /\ lastOutcome.h.attempt >= 1
       /\ ~lastOutcome.ok)
        => /\ saveStatus = "error"
           /\ \A t \in retryTimers : t.h.cycle # lastOutcome.h.cycle

\* C22: once the component is unmounted no debounce or retry timer is
\* pending, no request is sent, and a response changes neither saveStatus,
\* nor the draftId (state and stored item), nor the last-saved content.
TeardownCancelsAndDiscards ==
    [][ ~mounted' =>
          /\ saveTimeoutRef' = {}
          /\ retryTimers' = {}
          /\ ~mounted => /\ fetches' \subseteq fetches
                         /\ saveStatus' = saveStatus
                         /\ internalDraftId' = internalDraftId
                         /\ signify_draft_id' = signify_draft_id
                         /\ lastSaveRef' = lastSaveRef
      ]_vars

AtMostOneRequestInFlight == Cardinality(fetches) <= 1

\* C38: the retry counter stays within 0..MAX_RETRIES; it changes only by an
\* increment of one in a step that schedules a retry timer, or to 0 in a
\* step in which a save succeeded; every step that schedules a retry timer
\* increments it and every successful save leaves it 0. So the attempts of
\* all cycles between two successful saves schedule at most MAX_RETRIES
\* timers together.
RetryCounterShared ==
    [][/\ retryCountRef' \in 0..MAX_RETRIES
       /\ retryCountRef' # retryCountRef
             => \/ /\ retryCountRef' = retryCountRef + 1
                   /\ retryTimers' \ retryTimers # {}
                \/ /\ retryCountRef' = 0
                   /\ lastOutcome'.ok
       /\ retryTimers' \ retryTimers # {}
             => /\ retryCountRef' = retryCountRef + 1
                /\ Cardinality(retryTimers' \ retryTimers) = 1
       /\ lastOutcome'.ok => retryCountRef' = 0]_vars

\* C38 witness: an attempt has failed and no retry was scheduled for it,
\* before its cycle made MAX_RETRIES retries, because the retries of an
\* overlapping cycle, one of them still pending, brought the counter to
\* MAX_RETRIES
OverlappingCyclesShareRetries ==
    /\ retryCountRef = MAX_RETRIES
    /\ ~lastOutcome.ok
    /\ lastOutcome.h.attempt \in 1..MAX_RETRIES
    /\ \A t \in retryTimers : t.h.cycle # lastOutcome.h.cycle
    /\ \E t \in retryTimers : t.h.attempt <= MAX_RETRIES

\* C39: isUnloadingRef is a one-way latch: once it is set it stays set, and
\* from then on no step sends a save request: a debounce expiry, a
\* visibility change and a manual save return before the fetch, a pending
\* retry timer expires without calling saveDraft, so no save cycle starts
\* and the status never turns to Saving, also while the user keeps typing.
UnloadingFlagLatches ==
    [][isUnloadingRef
          => /\ isUnloadingRef'
             /\ fetches' \ fetches = {}
             /\ ~lastCall'.sent
             /\ triggers' = triggers
             /\ saveStatus' = "saving" => saveStatus = "saving"]_vars

\* C39 witness: after the unload handler ran with content "a" the user typed
\* "b", and the debounce timer that expired for it returned with the unsaved
\* text without sending it
TypedAfterUnloadNotSent ==
    /\ isUnloadingRef
    /\ Trim(content) = <<"b">>
    /\ lastCall.by = "debounce"
    /\ lastCall.content = Trim(content)
    /\ lastCall.content # lastSaveRef
    /\ ~lastCall.sent
    /\ \A f \in fetches : f.payload.content # Trim(content)

Init == InitStore /\ InitCapture /\ InitGuard /\ InitSave
Next ==
    \/ NextStore
    \/ NextCapture
    \/ NextGuard
    \/ NextSave
    \/ NextSaveSession
Spec == Init /\ [][Next]_vars
====
